---- MODULE Spec2Model ----
(***************************************************************************)
(* commit-ai: the generation session manager (CommitGenerator), the        *)
(* message parser (parseCommitMessage) and the interactive Dashboard.      *)
(*                                                                         *)
(* Text is a sequence of one-character strings, so that trimming, fence    *)
(* stripping and subject reassembly are computed character by character    *)
(* as the JavaScript does.                                                 *)
(***************************************************************************)
EXTENDS Integers, Sequences, FiniteSets, TLC

(***************************************************************************)
(* Bounds of the model.                                                    *)
(***************************************************************************)
\* generate() calls one direct caller makes
MaxCalls == 2
\* assistant.message_delta events the backend emits for one prompt
MaxDeltas == 2
\* generations the Dashboard starts (the initial one and the regenerations)
MaxGenerations == 3
\* calls of stop() (SIGINT, quit key, onError, doCommit, main's finally)
MaxStops == 1

(***************************************************************************)
(* Characters and strings.                                                 *)
(***************************************************************************)
NL == "\n"

\* the backquote character, which a TLA+ string cannot hold
BQ == "BQ"

\* \w of the regular expressions: lower case letters, digits and "_" (the
\* model's texts hold no upper case letter)
WordChars ==
    {"a", "b", "c", "d", "e", "f", "g", "h", "i", "j", "k", "l", "m", "n",
     "o", "p", "q", "r", "s", "t", "u", "v", "w", "x", "y", "z", "0", "1",
     "2", "3", "4", "5", "6", "7", "8", "9", "_"}

IsWord(c) == c \in WordChars

\* what String.prototype.trim and \s treat as white space
IsSpace(c) == c \in {" ", NL}

RECURSIVE TrimStart(_)
TrimStart(s) ==
    IF s # <<>> /\ IsSpace(Head(s)) THEN TrimStart(Tail(s)) ELSE s

RECURSIVE TrimEnd(_)
TrimEnd(s) ==
    IF s # <<>> /\ IsSpace(s[Len(s)])
    THEN TrimEnd(SubSeq(s, 1, Len(s) - 1))
    ELSE s

\* String.prototype.trim
Trim(s) == TrimEnd(TrimStart(s))

\* "```" starts at index i of s
IsFenceAt(s, i) ==
    /\ i + 2 <= Len(s)
    /\ s[i] = BQ
    /\ s[i + 1] = BQ
    /\ s[i + 2] = BQ

\* ^ under the m flag
AtLineStart(s, i) == i = 1 \/ s[i - 1] = NL

\* $ under the m flag: index i is past the end or holds a line break
AtLineEnd(s, i) == i > Len(s) \/ s[i] = NL

\* first index at or after i that holds no word character
RECURSIVE SkipWord(_, _)
SkipWord(s, i) ==
    IF i <= Len(s) /\ IsWord(s[i]) THEN SkipWord(s, i + 1) ELSE i

\* raw.replace(/^```[\w]*\n?/gm, "") from index i on
RECURSIVE StripOpenFences(_, _)
StripOpenFences(s, i) ==
    IF i > Len(s) THEN <<>>
    ELSE IF AtLineStart(s, i) /\ IsFenceAt(s, i)
         THEN LET j == SkipWord(s, i + 3)
                  k == IF j <= Len(s) /\ s[j] = NL THEN j + 1 ELSE j
              IN  StripOpenFences(s, k)
         ELSE <<s[i]>> \o StripOpenFences(s, i + 1)

\* .replace(/```$/gm, "") from index i on
RECURSIVE StripCloseFences(_, _)
StripCloseFences(s, i) ==
    IF i > Len(s) THEN <<>>
    ELSE IF IsFenceAt(s, i) /\ AtLineEnd(s, i + 3)
         THEN StripCloseFences(s, i + 3)
         ELSE <<s[i]>> \o StripCloseFences(s, i + 1)

\* the cleaned text of parseCommitMessage
Cleaned(raw) == Trim(StripCloseFences(StripOpenFences(raw, 1), 1))

\* the least member of a set of numbers
Least(S) == CHOOSE j \in S : \A k \in S : j <= k

\* s.indexOf(c, i - 1) as an index from 1, 0 if c does not occur from i on
IndexOf(s, c, i) ==
    IF \E j \in i..Len(s) : s[j] = c
    THEN CHOOSE j \in i..Len(s) :
             s[j] = c /\ \A k \in i..(j - 1) : s[k] # c
    ELSE 0

\* s.split("\n") from index i on, cur being the line read so far
RECURSIVE SplitLines(_, _, _)
SplitLines(s, i, cur) ==
    IF IndexOf(s, NL, i) = 0 THEN <<cur \o SubSeq(s, i, Len(s))>>
    ELSE <<cur \o SubSeq(s, i, IndexOf(s, NL, i) - 1)>>
             \o SplitLines(s, IndexOf(s, NL, i) + 1, <<>>)

IsNonBlank(line) == Trim(line) # <<>>

\* cleaned.split("\n").filter((line) => line.trim())
NonBlankLines(s) == SelectSeq(SplitLines(s, 1, <<>>), IsNonBlank)

\* lines.join("\n")
RECURSIVE JoinLines(_)
JoinLines(lines) ==
    IF lines = <<>> THEN <<>>
    ELSE IF Len(lines) = 1 THEN lines[1]
    ELSE lines[1] \o <<NL>> \o JoinLines(Tail(lines))

\* index of the first ")" at or after i, or 0
RECURSIVE FindClose(_, _)
FindClose(s, i) ==
    IF i > Len(s) THEN 0
    ELSE IF s[i] = ")" THEN i
    ELSE FindClose(s, i + 1)

NoScope == <<>>

(***************************************************************************)
(* subject.match(/^(\w+)(?:\(([^)]+)\))?:\s*(.+)$/): the type is the       *)
(* leading run of word characters; a scope is "(" , one or more characters *)
(* other than ")" , ")" ; then ":" and a description of at least one       *)
(* character, with leading white space skipped unless nothing else is left *)
(***************************************************************************)
\* index of the ")" that ends a scope group opening at p, or 0 if none does
ScopeClose(subject, p) ==
    IF /\ p <= Len(subject)
       /\ subject[p] = "("
       /\ FindClose(subject, p + 1) > p + 1
    THEN FindClose(subject, p + 1)
    ELSE 0

\* no match: type "chore", no scope, the description is the subject
NoMatch(subject) ==
    [matched |-> FALSE,
     type |-> <<"c", "h", "o", "r", "e">>,
     scope |-> NoScope,
     description |-> subject]

\* the type ends before p, the scope is given, and ":" is expected at q
MatchColon(subject, p, q, scope) ==
    LET rest == SubSeq(subject, q + 1, Len(subject))
    IN  IF /\ p > 1
           /\ q <= Len(subject)
           /\ subject[q] = ":"
           /\ rest # <<>>
        THEN [matched |-> TRUE,
              type |-> SubSeq(subject, 1, p - 1),
              scope |-> scope,
              description |-> IF TrimStart(rest) # <<>>
                              THEN TrimStart(rest)
                              ELSE <<rest[Len(rest)]>>]
        ELSE NoMatch(subject)

\* the type ends before p; close is the index ScopeClose found
MatchScope(subject, p, close) ==
    IF close > 0
    THEN MatchColon(subject, p, close + 1, SubSeq(subject, p + 1, close - 1))
    ELSE MatchColon(subject, p, p, NoScope)

MatchType(subject, p) == MatchScope(subject, p, ScopeClose(subject, p))

ConventionalMatch(subject) == MatchType(subject, SkipWord(subject, 1))

\* EMOJI_MAP: the emoji of a type as its UTF-16 code units, <<>> if unmapped
EMOJI_MAP(type) ==
    CASE type = <<"f", "e", "a", "t">> -> <<"u201a", "u00fa", "u00ae">>
      [] type = <<"f", "i", "x">> -> <<"uf8ff", "u00fc", "u00ea", "u00f5">>
      [] type = <<"c", "h", "o", "r", "e">> ->
            <<"uf8ff", "u00fc", "u00ee", "u00df">>
      [] OTHER -> <<>>

\* subject.substring(0, n): a negative n counts as 0
Substring0(s, n) ==
    SubSeq(s, 1, IF n < 0 THEN 0 ELSE IF n > Len(s) THEN Len(s) ELSE n)

Ellipsis == <<".", ".", ".">>

\* type, with the emoji of EMOJI_MAP before it if asked for and mapped
WithEmoji(type, config) ==
    IF config.includeEmoji /\ EMOJI_MAP(type) # <<>>
    THEN EMOJI_MAP(type) \o <<" ">> \o type
    ELSE type

\* the scope added whatever includeScope says
WithScopeAlways(subject, scope, config) ==
    IF scope # NoScope
    THEN subject \o <<"(">> \o scope \o <<")">>
    ELSE subject

\* subject += `(${scope})` if asked for and there is a scope
WithScope(subject, scope, config) ==
    IF config.includeScope /\ scope # NoScope
    THEN subject \o <<"(">> \o scope \o <<")">>
    ELSE subject

\* the subject rebuilt from the match m of the first line
Rebuilt(first, m, config) ==
    IF config.conventionalCommit
    THEN WithScope(WithEmoji(m.type, config), m.scope, config)
             \o <<":", " ">> \o m.description
    ELSE IF config.includeEmoji
         THEN EMOJI_MAP(<<"c", "h", "o", "r", "e">>) \o <<" ">> \o first
         ELSE first

\* the subject cut to maxSubjectLength
Truncated(subject, config) ==
    IF Len(subject) > config.maxSubjectLength
    THEN Substring0(subject, config.maxSubjectLength - 3) \o Ellipsis
    ELSE subject

\* the GeneratedMessage of a subject, a match and the body lines
GeneratedMessage(subject, m, bodyLines) ==
    [ok |-> TRUE, subject |-> subject, body |-> JoinLines(bodyLines),
     type |-> m.type, scope |-> m.scope,
     fullMessage |-> IF bodyLines # <<>>
                     THEN subject \o <<NL, NL>> \o JoinLines(bodyLines)
                     ELSE subject]

\* parseCommitMessage once the first line is known not to be empty
ParseSubject(first, m, bodyLines, config) ==
    GeneratedMessage(Truncated(Rebuilt(first, m, config), config), m,
                     bodyLines)

\* parseCommitMessage from the non-blank lines of the cleaned text on
ParseLines(lines, config) ==
    IF lines = <<>>
    THEN [ok |-> FALSE, subject |-> <<>>, body |-> <<>>,
          type |-> <<>>, scope |-> NoScope, fullMessage |-> <<>>]
    ELSE ParseSubject(lines[1], ConventionalMatch(lines[1]), Tail(lines),
                      config)

(***************************************************************************)
(* parseCommitMessage(raw, config): ok = FALSE is the thrown               *)
(* "Generated commit message is empty".                                    *)
(***************************************************************************)
parseCommitMessage(raw, config) ==
    ParseLines(NonBlankLines(Cleaned(raw)), config)

(***************************************************************************)
(* The texts the backend streams: a conventional subject, a markdown       *)
(* fence.                                                                  *)
(***************************************************************************)
SubjectText == <<"f", "i", "x", ":", " ", "a">>

FenceText == <<BQ, BQ, BQ>>

Chunks == {SubjectText, FenceText}

\* DEFAULT_CONFIG, as far as parseCommitMessage and the Dashboard read it
DEFAULT_CONFIG ==
    [conventionalCommit |-> TRUE,
     includeScope |-> TRUE,
     includeEmoji |-> FALSE,
     maxSubjectLength |-> 72,
     verbosity |-> "normal"]

\* config.model and config.premiumModel ?? DEFAULT_PREMIUM_MODEL
DefaultModel == "grok-code-fast-1"

PremiumModel == "sonnet-3.5"

NoOverride == "none"

NoInstruction == "none"

Instructions == {"shorter"}

(***************************************************************************)
(* Errors: what an awaited backend call rejects with, and what             *)
(* runWithSession and parseCommitMessage throw.                            *)
(***************************************************************************)
ErrCreate == "createSession failed"

ErrSend == "send failed"

ErrDestroy == "destroy failed"

ErrTimeout == "Session timeout"

ErrEmpty == "No response received from Copilot"

ErrParse == "Generated commit message is empty"

NoError == "none"

\* new Error(`Failed to generate commit message: ${error.message}`)
Wrapped(cause) ==
    [prefix |-> "Failed to generate commit message: ", cause |-> cause]

\* an error that leaves generate as it was thrown
Unwrapped(cause) == [prefix |-> "", cause |-> cause]

(***************************************************************************)
(* The smart-diff pipeline: sanitizeDiff, collapseImportLines,             *)
(* computeElevatedPaths, truncateDiff and getSmartDiff.                    *)
(***************************************************************************)
\* the double quote character
DQ == "DQ"

\* "c".repeat(n)
Rep(c, n) == [i \in 1..n |-> c]

\* s.startsWith(p)
StartsWith(s, p) == Len(s) >= Len(p) /\ SubSeq(s, 1, Len(p)) = p

\* p occurs in s at index i
OccursAt(s, i, p) ==
    i >= 1 /\ i + Len(p) - 1 <= Len(s) /\ SubSeq(s, i, i + Len(p) - 1) = p

\* s.lastIndexOf(c) as an index from 1, 0 if c does not occur
RECURSIVE LastIndexOf(_, _, _)
LastIndexOf(s, c, i) ==
    IF i = 0 THEN 0
    ELSE IF s[i] = c THEN i
    ELSE LastIndexOf(s, c, i - 1)

\* toLowerCase, over the characters the model's paths use
LowerChar(c) ==
    CASE c = "D" -> "d"
      [] c = "M" -> "m"
      [] c = "T" -> "t"
      [] c = "S" -> "s"
      [] OTHER -> c

ToLowerCase(s) == [i \in 1..Len(s) |-> LowerChar(s[i])]

\* String(n) of a natural number
RECURSIVE Decimal(_)
Decimal(n) ==
    LET d == <<"0", "1", "2", "3", "4", "5", "6", "7", "8", "9">>
    IN  IF n < 10 THEN <<d[n + 1]>>
        ELSE Decimal(n \div 10) \o <<d[(n % 10) + 1]>>

\* CONFLICT_MARKERS.test(line)
CONFLICT_MARKERS(line) ==
    \E c \in {"<", "=", ">", "|"} : StartsWith(line, Rep(c, 7))

KeepsLine(line) == ~CONFLICT_MARKERS(Trim(line))

ConflictNote ==
    <<NL, "[", "C", "o", "n", "f", "l", "i", "c", "t", " ", "m", "a", "r",
      "k", "e", "r", "s", " ", "r", "e", "m", "o", "v", "e", "d", " ", "f",
      "r", "o", "m", " ", "d", "i", "f", "f", ".", "]", NL>>

\* sanitizeDiff from the lines of the diff on
SanitizedLines(lines, kept) ==
    IF Len(kept) < Len(lines)
    THEN JoinLines(kept) \o ConflictNote
    ELSE JoinLines(kept)

SanitizeLines(lines) == SanitizedLines(lines, SelectSeq(lines, KeepsLine))

sanitizeDiff(diff) == SanitizeLines(SplitLines(diff, 1, <<>>))

\* path.split("/").pop()
BaseName(path) ==
    SubSeq(path, LastIndexOf(path, "/", Len(path)) + 1, Len(path))

\* the extension of a base name, lower-cased: "" if it holds no "."
Extension(base) ==
    IF LastIndexOf(base, ".", Len(base)) = 0 THEN <<>>
    ELSE ToLowerCase(SubSeq(base, LastIndexOf(base, ".", Len(base)),
                            Len(base)))

\* the map of getLanguageFromPath; "js" for an extension it does not hold
LanguageOfExtension(ext) ==
    CASE ext = <<".", "p", "y">> -> "python"
      [] ext = <<".", "r", "s">> -> "rust"
      [] ext = <<".", "g", "o">> -> "go"
      [] ext \in {<<".", "t", "s">>, <<".", "t", "s", "x">>} -> "ts"
      [] ext \in {<<".", "j", "s">>, <<".", "j", "s", "x">>,
                  <<".", "m", "j", "s">>, <<".", "c", "j", "s">>} -> "js"
      [] ext = <<".", "j", "a", "v", "a">> -> "java"
      [] ext = <<".", "k", "t">> -> "kt"
      [] ext \in {<<".", "c", "p", "p">>, <<".", "c">>, <<".", "h">>} -> "cpp"
      [] ext = <<".", "r", "b">> -> "rb"
      [] ext = <<".", "p", "h", "p">> -> "php"
      [] ext = <<".", "s", "h">> -> "shell"
      [] ext \in {<<".", "y", "m", "l">>, <<".", "y", "a", "m", "l">>} -> "none"
      [] OTHER -> "js"

LanguageOfBase(base) ==
    IF base \in {<<"M", "a", "k", "e", "f", "i", "l", "e">>,
                 <<"m", "a", "k", "e", "f", "i", "l", "e">>}
    THEN "none"
    ELSE LanguageOfExtension(Extension(base))

getLanguageFromPath(path) == LanguageOfBase(BaseName(path))

\* first index at or after i that holds no white space
RECURSIVE SkipSpaces(_, _)
SkipSpaces(s, i) ==
    IF i <= Len(s) /\ IsSpace(s[i]) THEN SkipSpaces(s, i + 1) ELSE i

\* ^w\s
WordSpace(s, w) ==
    StartsWith(s, w) /\ Len(s) > Len(w) /\ IsSpace(s[Len(w) + 1])

\* ^w\s*c
WordThenChar(s, w, c) ==
    /\ StartsWith(s, w)
    /\ SkipSpaces(s, Len(w) + 1) <= Len(s)
    /\ s[SkipSpaces(s, Len(w) + 1)] = c

\* ^w\s+.*\s+v\s : w, white space, anything, white space, v, white space
WordAnyWord(s, w, v) ==
    /\ WordSpace(s, w)
    /\ \E j \in (Len(w) + 2)..Len(s) :
           /\ IsSpace(s[j])
           /\ OccursAt(s, j + 1, v)
           /\ j + Len(v) + 1 <= Len(s)
           /\ IsSpace(s[j + Len(v) + 1])

KwImport == <<"i", "m", "p", "o", "r", "t">>

\* DEFAULT_IMPORT_PATTERNS.js, and .ts, which matches the same lines
JsImport(s) ==
    \/ WordSpace(s, KwImport)
    \/ WordAnyWord(s, <<"e", "x", "p", "o", "r", "t">>,
                   <<"f", "r", "o", "m">>)
    \/ WordThenChar(s, KwImport, "(")

\* DEFAULT_IMPORT_PATTERNS.python
PythonImport(s) ==
    \/ WordSpace(s, KwImport)
    \/ WordAnyWord(s, <<"f", "r", "o", "m">>, KwImport)

\* DEFAULT_IMPORT_PATTERNS.rust
RustImport(s) ==
    \/ WordSpace(s, <<"u", "s", "e">>)
    \/ /\ WordSpace(s, <<"p", "u", "b">>)
       /\ WordSpace(SubSeq(s, SkipSpaces(s, 4), Len(s)), <<"u", "s", "e">>)

\* DEFAULT_IMPORT_PATTERNS.go
GoImport(s) ==
    \/ WordThenChar(s, KwImport, "(")
    \/ WordSpace(s, KwImport) /\ WordThenChar(s, KwImport, DQ)

\* patterns[language] ?? patterns["js"] of getImportPatterns(config), for a
\* config without languageImportPatterns, tested on content
ImportPattern(language, content) ==
    CASE language = "python" -> PythonImport(content)
      [] language = "rust" -> RustImport(content)
      [] language = "go" -> GoImport(content)
      [] language \in {"java", "kt"} -> WordSpace(content, KwImport)
      [] language = "none" -> FALSE
      [] OTHER -> JsImport(content)

\* isImportLine from the trimmed line on
IsImportTrimmed(trimmed, language) ==
    /\ Len(trimmed) > 1
    /\ trimmed[1] \in {"+", "-"}
    /\ ImportPattern(language, Trim(Tail(trimmed)))

isImportLine(line, language) == IsImportTrimmed(Trim(line), language)

\* line.trimStart().startsWith("+") ? "+" : "-"
SignOf(line) ==
    IF TrimStart(line) # <<>> /\ Head(TrimStart(line)) = "+"
    THEN "+" ELSE "-"

\* RunEnd without the comparison of the signs
RECURSIVE RunEndAnySign(_, _, _, _)
RunEndAnySign(lines, i, lang, prefix) ==
    IF i <= Len(lines) /\ isImportLine(lines[i], lang)
    THEN RunEndAnySign(lines, i + 1, lang, prefix)
    ELSE i

\* the index after the run of import lines of the sign prefix that starts
\* at line i
RECURSIVE RunEnd(_, _, _, _)
RunEnd(lines, i, lang, prefix) ==
    IF /\ i <= Len(lines)
       /\ isImportLine(lines[i], lang)
       /\ SignOf(lines[i]) = prefix
    THEN RunEnd(lines, i + 1, lang, prefix)
    ELSE i

\* `${prefix} ... ${count} import line${count !== 1 ? "s" : ""} ...`
Placeholder(prefix, count) ==
    <<prefix>> \o <<" ", ".", ".", ".", " ">> \o Decimal(count)
        \o <<" ", "i", "m", "p", "o", "r", "t", " ", "l", "i", "n", "e">>
        \o (IF count # 1 THEN <<"s">> ELSE <<>>)
        \o <<" ", ".", ".", ".">>

\* the while loop of collapseImportLines from line i on
RECURSIVE CollapseFrom(_, _, _)
CollapseFrom(lines, i, lang) ==
    IF i > Len(lines) THEN <<>>
    ELSE IF ~isImportLine(lines[i], lang)
    THEN <<lines[i]>> \o CollapseFrom(lines, i + 1, lang)
    ELSE <<Placeholder(SignOf(lines[i]),
                       RunEnd(lines, i, lang, SignOf(lines[i])) - i)>>
             \o CollapseFrom(lines,
                             RunEnd(lines, i, lang, SignOf(lines[i])), lang)

\* config.importCollapse === false
CollapseOff(config) ==
    "importCollapse" \in DOMAIN config /\ ~config.importCollapse

collapseImportLines(chunk, path, config) ==
    IF CollapseOff(config) THEN chunk
    ELSE JoinLines(CollapseFrom(SplitLines(chunk, 1, <<>>), 1,
                                getLanguageFromPath(path)))

\* LOCKFILE_NAMES
LOCKFILE_NAMES ==
    {<<"p", "a", "c", "k", "a", "g", "e", "-", "l", "o", "c", "k", ".", "j", "s", "o", "n">>,
     <<"y", "a", "r", "n", ".", "l", "o", "c", "k">>,
     <<"p", "n", "p", "m", "-", "l", "o", "c", "k", ".", "y", "a", "m", "l">>,
     <<"b", "u", "n", ".", "l", "o", "c", "k", "b">>,
     <<"C", "a", "r", "g", "o", ".", "l", "o", "c", "k">>,
     <<"g", "o", ".", "s", "u", "m">>}

\* DEPRIORITIZED_DIRS
DEPRIORITIZED_DIRS ==
    {<<"d", "i", "s", "t", "/">>, <<"b", "u", "i", "l", "d", "/">>,
     <<".", "c", "a", "c", "h", "e", "/">>, <<"o", "u", "t", "/">>,
     <<"c", "o", "v", "e", "r", "a", "g", "e", "/">>}

\* PREFERRED_EXTENSIONS
PREFERRED_EXTENSIONS ==
    {<<".", "t", "s">>, <<".", "t", "s", "x">>, <<".", "j", "s">>,
     <<".", "j", "s", "x">>, <<".", "m", "j", "s">>,
     <<".", "c", "j", "s">>, <<".", "p", "y">>, <<".", "g", "o">>,
     <<".", "r", "s">>, <<".", "j", "a", "v", "a">>, <<".", "k", "t">>,
     <<".", "c", "p", "p">>, <<".", "c">>, <<".", "h">>, <<".", "r", "b">>,
     <<".", "p", "h", "p">>, <<".", "s", "h">>}

\* MANIFEST_BASES
MANIFEST_BASES ==
    {<<"p", "a", "c", "k", "a", "g", "e", ".", "j", "s", "o", "n">>,
     <<"C", "a", "r", "g", "o", ".", "t", "o", "m", "l">>,
     <<"g", "o", ".", "m", "o", "d">>,
     <<"p", "y", "p", "r", "o", "j", "e", "c", "t", ".", "t", "o", "m", "l">>,
     <<"b", "u", "i", "l", "d", ".", "g", "r", "a", "d", "l", "e">>,
     <<"b", "u", "i", "l", "d", ".", "g", "r", "a", "d", "l", "e", ".", "k", "t", "s">>,
     <<"G", "e", "m", "f", "i", "l", "e">>,
     <<"r", "e", "q", "u", "i", "r", "e", "m", "e", "n", "t", "s", ".", "t", "x", "t">>}

\* pathPriority from the base name of the path on
PriorityOf(path, base) ==
    IF base \in LOCKFILE_NAMES THEN 0
    ELSE IF \E d \in DEPRIORITIZED_DIRS : StartsWith(ToLowerCase(path), d)
    THEN 0
    ELSE IF base \in MANIFEST_BASES THEN 2
    ELSE IF Extension(base) \in PREFERRED_EXTENSIONS THEN 2
    ELSE 1

pathPriority(path) == PriorityOf(path, BaseName(path))

DigitChars == <<"0", "1", "2", "3", "4", "5", "6", "7", "8", "9">>

\* \d
IsDigit(c) == \E d \in 1..10 : DigitChars[d] = c

DigitValue(c) == (CHOOSE d \in 1..10 : DigitChars[d] = c) - 1

\* first index at or after i that holds no digit
RECURSIVE SkipDigits(_, _)
SkipDigits(s, i) ==
    IF i <= Len(s) /\ IsDigit(s[i]) THEN SkipDigits(s, i + 1) ELSE i

\* Number(s) of a string of digits
RECURSIVE NumberOf(_)
NumberOf(s) ==
    IF s = <<>> THEN 0
    ELSE 10 * NumberOf(SubSeq(s, 1, Len(s) - 1)) + DigitValue(s[Len(s)])

\* how often c occurs in s
RECURSIVE CountChar(_, _)
CountChar(s, c) ==
    IF s = <<>> THEN 0
    ELSE (IF Head(s) = c THEN 1 ELSE 0) + CountChar(Tail(s), c)

\* /^\s*\d+\s+files? changed/ from the index d of the first digit on
SummaryFrom(line, d) ==
    /\ SkipDigits(line, d) > d
    /\ SkipSpaces(line, SkipDigits(line, d)) > SkipDigits(line, d)
    /\ \/ OccursAt(line, SkipSpaces(line, SkipDigits(line, d)),
                   <<"f", "i", "l", "e", " ", "c", "h", "a", "n", "g", "e", "d">>)
       \/ OccursAt(line, SkipSpaces(line, SkipDigits(line, d)),
                   <<"f", "i", "l", "e", "s", " ", "c", "h", "a", "n", "g", "e", "d">>)

IsSummaryLine(line) == SummaryFrom(line, SkipSpaces(line, 1))

\* line.slice(pipe + 1).trim() of a stat line with a "|"
StatRest(line) == Trim(SubSeq(line, IndexOf(line, "|", 1) + 1, Len(line)))

\* line.slice(0, pipe).trim()
StatPath(line) == Trim(SubSeq(line, 1, IndexOf(line, "|", 1) - 1))

\* total: Number(numMatch[1]), 0 without a match
TotalOf(rest) == NumberOf(SubSeq(rest, 1, SkipDigits(rest, 1) - 1))

\* bar: numMatch[2].trim(), "" without a match
BarOf(rest) ==
    IF SkipDigits(rest, 1) = 1 THEN <<>>
    ELSE Trim(SubSeq(rest, SkipDigits(rest, 1), Len(rest)))

\* added and removed from total, plusCount and minusCount
LineCounts(path, total, plusCount, minusCount) ==
    IF plusCount > 0 /\ minusCount > 0
    THEN [path |-> path, added |-> plusCount, removed |-> minusCount]
    ELSE IF minusCount > 0
    THEN [path |-> path, added |-> 0, removed |-> total]
    ELSE [path |-> path, added |-> total, removed |-> 0]

\* the entry one stat line sets in the map
StatEntry(line) ==
    LineCounts(StatPath(line), TotalOf(StatRest(line)),
               CountChar(BarOf(StatRest(line)), "+"),
               CountChar(BarOf(StatRest(line)), "-"))

\* map.set(path, counts): a Map keeps the place of a key it already holds
MapSet(map, entry) ==
    IF \E k \in 1..Len(map) : map[k].path = entry.path
    THEN [k \in 1..Len(map) |->
             IF map[k].path = entry.path THEN entry ELSE map[k]]
    ELSE Append(map, entry)

\* the for loop of parseStatForLineCounts from line i on
RECURSIVE StatLoop(_, _, _)
StatLoop(lines, i, map) ==
    IF i > Len(lines) THEN map
    ELSE IF IsSummaryLine(lines[i]) \/ IndexOf(lines[i], "|", 1) = 0
    THEN StatLoop(lines, i + 1, map)
    ELSE StatLoop(lines, i + 1, MapSet(map, StatEntry(lines[i])))

IsNonEmpty(line) == line # <<>>

\* stat.trim().split("\n").filter(Boolean)
StatLines(stat) == SelectSeq(SplitLines(Trim(stat), 1, <<>>), IsNonEmpty)

parseStatForLineCounts(stat) == StatLoop(StatLines(stat), 1, <<>>)

\* the sum of added + removed over the entries from i on
RECURSIVE TotalLines(_, _)
TotalLines(counts, i) ==
    IF i > Len(counts) THEN 0
    ELSE counts[i].added + counts[i].removed + TotalLines(counts, i + 1)

IsLowTier(entry) == pathPriority(entry.path) <= 1

\* a threshold is a fraction <<num, den>>; lowTierLines / total <= threshold
AtMost(lowTierLines, total, threshold) ==
    lowTierLines * threshold[2] <= threshold[1] * total

\* computeElevatedPaths from the parsed counts on
ElevatedOf(counts, low, threshold, minLines) ==
    IF TotalLines(counts, 1) < minLines \/ TotalLines(counts, 1) = 0
    THEN {}
    ELSE IF AtMost(TotalLines(low, 1), TotalLines(counts, 1), threshold)
    THEN {}
    ELSE {low[k].path : k \in 1..Len(low)}

ElevatedFrom(counts, threshold, minLines) ==
    ElevatedOf(counts, SelectSeq(counts, IsLowTier), threshold, minLines)

computeElevatedPaths(stat, threshold, minLines) ==
    ElevatedFrom(parseStatForLineCounts(stat), threshold, minLines)

DiffGit == <<"d", "i", "f", "f", " ", "-", "-", "g", "i", "t", " ">>

UnknownPath == <<"u", "n", "k", "n", "o", "w", "n">>

\* the indexes after start at which /(?=^diff --git )/m matches
SplitPoints(diff, start) ==
    {i \in (start + 1)..Len(diff) :
        AtLineStart(diff, i) /\ OccursAt(diff, i, DiffGit)}

\* diff.split(/(?=^diff --git )/m) from the part that starts at index start on
RECURSIVE PartsFrom(_, _)
PartsFrom(diff, start) ==
    IF SplitPoints(diff, start) = {}
    THEN <<SubSeq(diff, start, Len(diff))>>
    ELSE <<SubSeq(diff, start, Least(SplitPoints(diff, start)) - 1)>>
             \o PartsFrom(diff, Least(SplitPoints(diff, start)))

\* the first line of a text
FirstLine(s) ==
    IF IndexOf(s, NL, 1) = 0 THEN s
    ELSE SubSeq(s, 1, IndexOf(s, NL, 1) - 1)

\* the indexes of the header line at which " b/" can match: a character of
\* (.+?) before it, a character of the second (.+?) after it
BSlashAt(line) ==
    {j \in 15..Len(line) : OccursAt(line, j, <<" ", "b", "/">>) /\ j + 3 <= Len(line)}

\* last index of the second (.+?), which starts at index i: it stops before
\* the first white space or at the end of the line
RECURSIVE LazyEnd(_, _)
LazyEnd(line, i) ==
    IF i = Len(line) \/ IsSpace(line[i + 1]) THEN i
    ELSE LazyEnd(line, i + 1)

\* match[2] of /^diff --git a\/(.+?) b\/(.+?)(?:\s|$)/m on the header line
HeaderPath(line) ==
    IF StartsWith(line, <<"d", "i", "f", "f", " ", "-", "-", "g", "i", "t", " ", "a", "/">>)
       /\ BSlashAt(line) # {}
    THEN SubSeq(line, Least(BSlashAt(line)) + 3,
                LazyEnd(line, Least(BSlashAt(line)) + 3))
    ELSE UnknownPath

FileChunk(chunk) == [path |-> HeaderPath(FirstLine(chunk)), chunk |-> chunk]

splitDiffIntoFileChunks(diff) ==
    IF diff = <<>> THEN <<>>
    ELSE [k \in 1..Len(PartsFrom(diff, 1)) |->
             FileChunk(PartsFrom(diff, 1)[k])]

\* getEffectivePriority
EffectivePriority(path, elevatedPaths) ==
    IF path \in elevatedPaths THEN 3 ELSE pathPriority(path)

\* the chunks of effective priority prio, in their original order
ChunksOfPriority(fileChunks, elevatedPaths, prio) ==
    LET Has(c) == EffectivePriority(c.path, elevatedPaths) = prio
    IN  SelectSeq(fileChunks, Has)

\* [...fileChunks].sort(...): effective priority descending, then original
\* index ascending
Sorted(fileChunks, elevatedPaths) ==
    ChunksOfPriority(fileChunks, elevatedPaths, 3)
        \o ChunksOfPriority(fileChunks, elevatedPaths, 2)
        \o ChunksOfPriority(fileChunks, elevatedPaths, 1)
        \o ChunksOfPriority(fileChunks, elevatedPaths, 0)

\* the reserve taken off the budget of a partly kept chunk
ElisionReserve == 50

\* the budget a partly kept chunk needs more than
MinTailBudget == 100

\* the for loop that collects tailLines, from line i down: the index of the
\* first line of the tail
RECURSIVE TailStart(_, _, _, _)
TailStart(lines, i, tailLength, budget) ==
    IF i >= 1 /\ tailLength + Len(lines[i]) + 1 <= budget
    THEN TailStart(lines, i - 1, tailLength + Len(lines[i]) + 1, budget)
    ELSE i + 1

\* truncatedChunk, the tail starting at line start: omitted is
\* lines.length - 1 - tailLines.length
ElidedChunk(lines, start, omitted) ==
    lines[1] \o <<NL, ".", ".", ".", "[", "t", "r", "u", "n", "c", "a", "t", "e", "d", ",", " ">>
        \o Decimal(omitted) \o <<" ", "l", "i", "n", "e">>
        \o (IF omitted # 1 THEN <<"s">> ELSE <<>>)
        \o <<" ", "o", "m", "i", "t", "t", "e", "d", "]", ".", ".", ".", NL>>
        \o JoinLines(SubSeq(lines, start, Len(lines)))

TruncatedChunk(lines, start) == ElidedChunk(lines, start, start - 2)

\* the chunk kept in part under a budget
TailOf(lines, budget) ==
    TruncatedChunk(lines, TailStart(lines, Len(lines), 0, budget))

\* what result holds of a chunk: its place in sorted, its path, the text
\* pushed, and whether it is the whole chunk
Pushed(rank, c, text, whole) ==
    [rank |-> rank, path |-> c.path, text |-> text, whole |-> whole]

\* result.length ? 1 : 0
Separator(result) == IF Len(result) > 0 THEN 1 ELSE 0

\* the else-if branch of the loop: budget > 100 pushes the elided chunk
PartOf(sorted, k, result, budget) ==
    IF budget > MinTailBudget
    THEN Append(result,
                Pushed(k, sorted[k],
                       TailOf(SplitLines(sorted[k].chunk, 1, <<>>), budget),
                       FALSE))
    ELSE result

\* the for loop over sorted from place k on
RECURSIVE ChunkLoop(_, _, _, _, _, _)
ChunkLoop(sorted, k, result, currentLength, effectiveLimit, elevatedPaths) ==
    IF k > Len(sorted) THEN result
    ELSE IF currentLength + Len(sorted[k].chunk) + Separator(result)
                <= effectiveLimit
    THEN ChunkLoop(sorted, k + 1,
                   Append(result,
                          Pushed(k, sorted[k], sorted[k].chunk, TRUE)),
                   currentLength + Len(sorted[k].chunk) + Separator(result),
                   effectiveLimit, elevatedPaths)
    ELSE IF /\ currentLength < effectiveLimit
            /\ EffectivePriority(sorted[k].path, elevatedPaths) >= 1
    THEN PartOf(sorted, k, result,
                effectiveLimit - currentLength - Separator(result)
                    - ElisionReserve)
    ELSE ChunkLoop(sorted, k + 1, result, currentLength, effectiveLimit,
                   elevatedPaths)

\* result of truncateDiff for a diff of two or more file chunks
ResultOf(fileChunks, effectiveLimit, elevatedPaths) ==
    ChunkLoop(Sorted(fileChunks, elevatedPaths), 1, <<>>, 0, effectiveLimit,
              elevatedPaths)

\* result.join("\n")
JoinResult(result) == JoinLines([k \in 1..Len(result) |-> result[k].text])

\* content || diff.slice(0, effectiveLimit)
ContentOr(content, diff, effectiveLimit) ==
    IF content # <<>> THEN content ELSE SubSeq(diff, 1, effectiveLimit)

\* the for loop of the single-chunk branch from line i on: the number of
\* lines kept
RECURSIVE KeptLines(_, _, _, _)
KeptLines(lines, i, currentLength, effectiveLimit) ==
    IF i > Len(lines) \/ currentLength + Len(lines[i]) + 1 > effectiveLimit
    THEN i - 1
    ELSE KeptLines(lines, i + 1, currentLength + Len(lines[i]) + 1,
                   effectiveLimit)

ForwardTruncated(lines, effectiveLimit) ==
    JoinLines(SubSeq(lines, 1, KeptLines(lines, 1, 0, effectiveLimit)))

\* truncateDiff once the diff is known to be longer than effectiveLimit
TruncateChunks(diff, fileChunks, effectiveLimit, elevatedPaths) ==
    IF Len(fileChunks) <= 1
    THEN [content |->
              ForwardTruncated(SplitLines(diff, 1, <<>>), effectiveLimit),
          wasTruncated |-> TRUE]
    ELSE [content |->
              ContentOr(JoinResult(ResultOf(fileChunks, effectiveLimit,
                                            elevatedPaths)),
                        diff, effectiveLimit),
          wasTruncated |-> TRUE]

truncateDiff(diff, effectiveLimit, elevatedPaths) ==
    IF Len(diff) <= effectiveLimit
    THEN [content |-> diff, wasTruncated |-> FALSE]
    ELSE TruncateChunks(diff, splitDiffIntoFileChunks(diff), effectiveLimit,
                        elevatedPaths)

\* config.elevationThreshold ?? 0.8
DefaultThreshold == <<4, 5>>

ThresholdOf(config) ==
    IF "elevationThreshold" \in DOMAIN config
    THEN config.elevationThreshold
    ELSE DefaultThreshold

\* config.elevationMinLines ?? 0
MinLinesOf(config) ==
    IF "elevationMinLines" \in DOMAIN config
    THEN config.elevationMinLines
    ELSE 0

\* elevatedPaths of getSmartDiff: "" is a stat that was not given
ElevatedPaths(stat, config) ==
    IF stat = <<>> THEN {}
    ELSE computeElevatedPaths(stat, ThresholdOf(config), MinLinesOf(config))

\* collapsedDiff of getSmartDiff from the chunks of the sanitized diff on
CollapsedOf(sanitized, chunks, config) ==
    IF Len(chunks) = 0 THEN sanitized
    ELSE JoinLines([k \in 1..Len(chunks) |->
                       collapseImportLines(chunks[k].chunk, chunks[k].path,
                                           config)])

CollapsedDiff(sanitized, config) ==
    CollapsedOf(sanitized, splitDiffIntoFileChunks(sanitized), config)

getSmartDiff(diff, stat, config, effectiveLimit) ==
    truncateDiff(CollapsedDiff(sanitizeDiff(diff), config), effectiveLimit,
                 ElevatedPaths(stat, config))

VARIABLES
    caller,       \* who drives the generator: "direct" or "dashboard"
    session,      \* CommitGenerator.session: a session id, 0 for null
    sessions,     \* the sessions createSession has returned, by id
    handlers,     \* the listeners session.on has registered, one per run
    gen,          \* the generate() call in flight
    event,        \* the session event being dispatched
    pending,      \* the listeners the event is still to be handed to
    stop,         \* the stop() call in flight
    calls,        \* generate() calls started
    progressRef,  \* progressRef.current of cli.ts
    exited,       \* process.exit has been called
    ui,           \* the Dashboard's state and its generationKey ref
    commit,       \* the commit(message) call of the Dashboard in flight
    prepared,     \* prepareDiffAndContext: the staged diff and its smart diff
    applied       \* a function applied on its own: its arguments and its result

vars == <<caller, session, sessions, handlers, gen, event, pending, stop,
          calls, progressRef, exited, ui, commit, prepared, applied>>

NoOut == [status |-> "none", message |-> <<>>, error |-> Unwrapped(NoError)]

Success(parsed) ==
    [status |-> "ok", message |-> parsed.fullMessage,
     error |-> Unwrapped(NoError)]

Failure(error) == [status |-> "error", message |-> <<>>, error |-> error]

\* no generate() call is in flight
IdleGen ==
    [pc |-> "idle", key |-> 0, override |-> NoOverride,
     instruction |-> NoInstruction, config |-> DEFAULT_CONFIG,
     temp |-> 0, sid |-> 0, hid |-> 0, hung |-> FALSE,
     err |-> NoError, orig |-> NoError, value |-> NoOut, out |-> NoOut,
     creates |-> 0, createModel |-> "none", entrySession |-> 0,
     victim |-> 0]

IdleStop == [pc |-> "idle", sid |-> 0, hung |-> FALSE, count |-> 0]

NoEvent == [type |-> "none", text |-> <<>>]

\* the state useState and useRef give the Dashboard on its first render
InitialUi ==
    [message |-> <<>>,
     fullMessage |-> <<>>,
     phase |-> "session",
     viewState |-> "generating",
     config |-> DEFAULT_CONFIG,
     customInstruction |-> NoInstruction,
     error |-> NoError,
     generationKey |-> 0,
     instruction |-> NoInstruction,  \* generateMessage's instruction argument
     style |-> "none",               \* handleStyleSelect's last argument
     mounted |-> FALSE]              \* the mount effect has run

NoCommit == [pc |-> "idle", message |-> <<>>]

\* no function is applied on its own
NoApplied == [fn |-> "none", pc |-> "none"]

(***************************************************************************)
(* prepareDiffAndContext of cli.ts: getSmartDiff applied to a staged diff, *)
(* its stat and a config, each drawn from a bounded set.                   *)
(***************************************************************************)
\* the added line every file of the model's diffs repeats
BodyLine == <<"+", "x", "x", "x", "x", "x", "x", "x", "x">>

\* the paths of the model's diffs: a preferred extension, no preferred
\* extension, a lock file, a deprioritized directory
PathGo == <<"x", ".", "g", "o">>

PathMd == <<"x", ".", "m", "d">>

PathSum == <<"g", "o", ".", "s", "u", "m">>

PathOut == <<"o", "u", "t", "/", "x">>

\* the most files a diff holds
MaxFiles == 3

\* a file of a diff: its path and the number of its added lines
Files ==
    {[path |-> PathGo, lines |-> 1], [path |-> PathGo, lines |-> 14],
     [path |-> PathMd, lines |-> 14], [path |-> PathSum, lines |-> 20],
     [path |-> PathOut, lines |-> 1]}

\* the lines of a file's chunk after its header
RECURSIVE Body(_)
Body(n) == IF n = 0 THEN <<>> ELSE BodyLine \o <<NL>> \o Body(n - 1)

\* the chunk git diff prints for a file
ChunkText(file) ==
    DiffGit \o <<"a", "/">> \o file.path \o <<" ", "b", "/">> \o file.path
        \o <<NL>> \o Body(file.lines)

\* the diff git prints for a list of files
RECURSIVE DiffText(_)
DiffText(files) ==
    IF files = <<>> THEN <<>>
    ELSE ChunkText(Head(files)) \o DiffText(Tail(files))

\* the lists of one to MaxFiles files of different paths
FileLists ==
    {fs \in UNION {[1..n -> Files] : n \in 1..MaxFiles} :
        \A i, j \in 1..Len(fs) : i # j => fs[i].path # fs[j].path}

Diffs == {DiffText(fs) : fs \in FileLists}

\* git diff --staged --stat outputs: none, the low-tier file holding 8 of
\* 10, 9 of 10 and (by the numbers) 40 of 43 changed lines
NoStat == <<>>

StatEight ==
    <<" ", "x", ".", "g", "o", " ", "|", " ", "2", " ", "+", "+", NL, " ",
      "x", ".", "m", "d", " ", "|", " ", "8", " ", "+", "+", "+", "+", "+",
      "+", "+", "+", NL, " ", "2", " ", "f", "i", "l", "e", "s", " ", "c",
      "h", "a", "n", "g", "e", "d", ",", " ", "1", "0", " ", "i", "n", "s",
      "e", "r", "t", "i", "o", "n", "s", "(", "+", ")", NL>>

StatNine ==
    <<" ", "x", ".", "g", "o", " ", "|", " ", "1", " ", "+", NL, " ", "x",
      ".", "m", "d", " ", "|", " ", "9", " ", "+", "+", "+", "+", "+", "+",
      "+", "+", "+", NL, " ", "2", " ", "f", "i", "l", "e", "s", " ", "c",
      "h", "a", "n", "g", "e", "d", ",", " ", "1", "0", " ", "i", "n", "s",
      "e", "r", "t", "i", "o", "n", "s", "(", "+", ")", NL>>

StatScaled ==
    <<" ", "x", ".", "g", "o", " ", "|", " ", "3", " ", "+", "+", "-", NL,
      " ", "x", ".", "m", "d", " ", "|", " ", "4", "0", " ", "+", "+", "+",
      "+", "-", "-", "-", "-", NL, " ", "2", " ", "f", "i", "l", "e", "s",
      " ", "c", "h", "a", "n", "g", "e", "d", ",", " ", "2", "2", " ", "i",
      "n", "s", "e", "r", "t", "i", "o", "n", "s", "(", "+", ")", ",", " ",
      "2", "1", " ", "d", "e", "l", "e", "t", "i", "o", "n", "s", "(", "-",
      ")", NL>>

Stats == {NoStat, StatEight, StatNine, StatScaled}

\* the fields of config the pipeline reads: a config that leaves
\* elevationThreshold and elevationMinLines unset, and one that sets them
PlainDiffConfig == [importCollapse |-> TRUE]

CustomDiffConfig ==
    [elevationThreshold |-> <<1, 2>>, elevationMinLines |-> 11,
     importCollapse |-> FALSE]

DiffConfigs == {PlainDiffConfig, CustomDiffConfig}

\* getEffectiveDiffLimit(config): the values of maxDiffLength tried
Limits == {120, 200}

\* what result holds, without the texts
Shape(result) ==
    [k \in 1..Len(result) |->
        [rank |-> result[k].rank, path |-> result[k].path,
         whole |-> result[k].whole]]

\* the paths of sorted, and the result of the loop over it, for a diff
\* truncateDiff takes chunk by chunk; empty otherwise
SortedPaths(collapsed, effectiveLimit, elevatedPaths) ==
    IF Len(collapsed) <= effectiveLimit
       \/ Len(splitDiffIntoFileChunks(collapsed)) <= 1
    THEN <<>>
    ELSE [k \in 1..Len(splitDiffIntoFileChunks(collapsed)) |->
             Sorted(splitDiffIntoFileChunks(collapsed), elevatedPaths)[k].path]

ResultShape(collapsed, effectiveLimit, elevatedPaths) ==
    IF Len(collapsed) <= effectiveLimit
       \/ Len(splitDiffIntoFileChunks(collapsed)) <= 1
    THEN <<>>
    ELSE Shape(ResultOf(splitDiffIntoFileChunks(collapsed), effectiveLimit,
                        elevatedPaths))

\* nothing has been prepared: the generator is modelled on its own
NoPrepared ==
    [pc |-> "none", diff |-> <<>>, stat |-> <<>>,
     config |-> PlainDiffConfig, effectiveLimit |-> 0,
     collapsed |-> <<>>, elevatedPaths |-> {}, sorted |-> <<>>,
     result |-> <<>>, content |-> <<>>, wasTruncated |-> FALSE,
     prompts |-> <<>>]

Staged(diff, stat, config, effectiveLimit) ==
    [NoPrepared EXCEPT !.pc = "staged", !.diff = diff, !.stat = stat,
                       !.config = config,
                       !.effectiveLimit = effectiveLimit]

\* prepared once getSmartDiff has returned out
Done(p, collapsed, elevatedPaths, out) ==
    [p EXCEPT !.pc = "prepared",
              !.collapsed = collapsed,
              !.elevatedPaths = elevatedPaths,
              !.sorted = SortedPaths(collapsed, p.effectiveLimit,
                                     elevatedPaths),
              !.result = ResultShape(collapsed, p.effectiveLimit,
                                     elevatedPaths),
              !.content = out.content,
              !.wasTruncated = out.wasTruncated]

(***************************************************************************)
(* The callbacks a caller hands to generate().  The Dashboard's check the  *)
(* generation key they were created under; the direct caller's write the   *)
(* progress phase to progressRef.                                          *)
(***************************************************************************)
\* an onChunk that does not compare its key with generationKey.current
onChunkUnguarded(u, key, chunk) == [u EXCEPT !.message = @ \o chunk]

\* Dashboard: onChunk of generateMessage
onChunk(u, key, chunk) ==
    IF key = u.generationKey
    THEN [u EXCEPT !.message = @ \o chunk]
    ELSE u

\* Dashboard: onProgress of generateMessage
onProgress(u, key, progressPhase) ==
    IF key = u.generationKey
    THEN [u EXCEPT !.phase = progressPhase,
                   !.viewState = IF progressPhase = "streaming"
                                 THEN "generating"
                                 ELSE @]
    ELSE u

CallOnChunk(u, key, chunk) ==
    IF caller = "dashboard" THEN onChunk(u, key, chunk) ELSE u

CallOnProgress(u, key, progressPhase) ==
    IF caller = "dashboard" THEN onProgress(u, key, progressPhase) ELSE u

\* progressRef.current after onProgress(progressPhase) under key
RefOnProgress(ref, u, key, progressPhase) ==
    IF caller = "dashboard" /\ key # u.generationKey
    THEN ref
    ELSE progressPhase

(***************************************************************************)
(* Sessions of the backend.                                                *)
(***************************************************************************)
NewSession(model) ==
    [model |-> model,
     destroyCalls |-> 0,   \* times destroy() was invoked on it
     closed |-> FALSE,     \* a destroy() of it has completed
     open |-> FALSE,       \* a prompt was sent and idle has not followed
     deltas |-> 0,         \* deltas emitted for that prompt
     msgSent |-> FALSE]    \* the final message was emitted for it

\* session.destroy() is invoked
DestroyCall(ss, sid) == [ss EXCEPT ![sid].destroyCalls = @ + 1]

\* session.destroy() has completed
Closed(ss, sid) == [ss EXCEPT ![sid].closed = TRUE, ![sid].open = FALSE]

\* session.send({ prompt }) is invoked
PromptSent(ss, sid) ==
    [ss EXCEPT ![sid].open = TRUE, ![sid].deltas = 0, ![sid].msgSent = FALSE]

\* the closure of one runWithSession call: its listener's variables
NewHandler(sid, key) ==
    [sid |-> sid, key |-> key, acc |-> <<>>,
     reported |-> FALSE, resolved |-> FALSE]

\* the listeners registered on session sid, in registration order
RECURSIVE ListenersFrom(_, _)
ListenersFrom(sid, i) ==
    IF i > Len(handlers) THEN <<>>
    ELSE IF handlers[i].sid = sid
         THEN <<i>> \o ListenersFrom(sid, i + 1)
         ELSE ListenersFrom(sid, i + 1)

\* runWithSession has returned or thrown: its accumulator is read no more,
\* and the events of its prompt are awaited no more
RunEnded(hs, h) == [hs EXCEPT ![h].acc = <<>>, ![h].resolved = FALSE]

PromptOver(ss, sid) ==
    [ss EXCEPT ![sid].open = FALSE, ![sid].deltas = 0, ![sid].msgSent = FALSE]

\* the done promise of the run in flight has resolved
DoneResolved == gen.hid # 0 /\ handlers[gen.hid].resolved

(***************************************************************************)
(* JavaScript runs a task to completion: while an event is being handed to *)
(* the listeners, or a promise continuation is ready (the race has been    *)
(* won by done, generate has settled), no timer, backend answer or key     *)
(* press is handled.                                                       *)
(***************************************************************************)
Quiet ==
    /\ ~exited
    /\ pending = <<>>
    /\ gen.pc # "returned"
    /\ ~(gen.pc = "race" /\ DoneResolved)

(***************************************************************************)
(* CommitGenerator.generate                                                *)
(***************************************************************************)
\* the catch block of generate: destroy the reusable session if there is one
CatchBlock(g, ss, err) ==
    IF session # 0
    THEN [gen |-> [g EXCEPT !.pc = "catchDestroy", !.err = err,
                            !.victim = session, !.hung = FALSE],
          sessions |-> DestroyCall(ss, session)]
    ELSE [gen |-> [g EXCEPT !.pc = "returned",
                            !.out = Failure(Wrapped(err))],
          sessions |-> ss]

\* runWithSession or parseCommitMessage throws err
ThrowFromRun(g, ss, err) ==
    IF g.temp # 0
    THEN [gen |-> [g EXCEPT !.pc = "tempDestroy", !.err = err,
                            !.orig = err, !.hung = FALSE],
          sessions |-> DestroyCall(ss, g.temp)]
    ELSE CatchBlock([g EXCEPT !.orig = err], ss, err)

\* a return that leaves the override path without its finally block
ReturnFromRunNoFinally(g, ss, parsed) ==
    [gen |-> [g EXCEPT !.pc = "returned", !.out = Success(parsed)],
     sessions |-> ss]

\* return parseCommitMessage(rawMessage, config)
ReturnFromRun(g, ss, parsed) ==
    IF g.temp # 0
    THEN [gen |-> [g EXCEPT !.pc = "tempDestroy",
                            !.value = Success(parsed), !.hung = FALSE],
          sessions |-> DestroyCall(ss, g.temp)]
    ELSE [gen |-> [g EXCEPT !.pc = "returned", !.out = Success(parsed)],
          sessions |-> ss]

\* return parseCommitMessage(rawMessage, config), which may throw
ReturnParsed(g, ss, parsed) ==
    IF parsed.ok
    THEN ReturnFromRun(g, ss, parsed)
    ELSE ThrowFromRun(g, ss, ErrParse)

\* runWithSession after the race, rawMessage being fullContent.trim(), and
\* parseCommitMessage on its result
FinishRun(g, ss, rawMessage) ==
    IF rawMessage = <<>>
    THEN ThrowFromRun(g, ss, ErrEmpty)
    ELSE ReturnParsed(g, ss, parseCommitMessage(rawMessage, g.config))

\* a default path that asks for a session on every call
NeedsSessionAlways(s) == TRUE

\* this.session === null, on the default path
NeedsSession(s) == s = 0

(***************************************************************************)
(* generate(diff, config, context, customInstruction, onChunk, onProgress, *)
(* modelOverride) up to its first await, the callbacks being those of key  *)
(* and u the caller's state when it calls.                                 *)
(***************************************************************************)
StartGenerate(u, key, config, customInstruction, modelOverride) ==
    LET g == [IdleGen EXCEPT !.key = key, !.override = modelOverride,
                             !.instruction = customInstruction,
                             !.config = config, !.entrySession = session]
    IN  IF modelOverride # NoOverride
        THEN /\ gen' = [g EXCEPT !.pc = "createTemp", !.creates = 1,
                                 !.createModel = modelOverride]
             /\ ui' = CallOnProgress(u, key, "session")
             /\ progressRef' = RefOnProgress(progressRef, u, key, "session")
             /\ UNCHANGED <<handlers, sessions, prepared, applied>>
        ELSE IF NeedsSession(session)
        THEN /\ gen' = [g EXCEPT !.pc = "create", !.creates = 1,
                                 !.createModel = DefaultModel]
             /\ ui' = CallOnProgress(u, key, "session")
             /\ progressRef' = RefOnProgress(progressRef, u, key, "session")
             /\ UNCHANGED <<handlers, sessions, prepared, applied>>
        ELSE /\ gen' = [g EXCEPT !.pc = "send", !.sid = session,
                                 !.hid = Len(handlers) + 1]
             /\ handlers' = Append(handlers, NewHandler(session, key))
             /\ sessions' = PromptSent(sessions, session)
             /\ ui' = CallOnProgress(u, key, "sending")
             /\ progressRef' = RefOnProgress(progressRef, u, key, "sending")

\* createSession resolves: the session is kept and runWithSession begins
CreateSessionOk ==
    /\ Quiet
    /\ gen.pc \in {"create", "createTemp"}
    /\ ~gen.hung
    /\ LET sid == Len(sessions) + 1
       IN  /\ sessions' = PromptSent(
                  Append(sessions, NewSession(gen.createModel)), sid)
           /\ session' = IF gen.pc = "create" THEN sid ELSE session
           /\ gen' = [gen EXCEPT !.pc = "send", !.sid = sid,
                                 !.temp = IF gen.pc = "createTemp"
                                          THEN sid ELSE 0,
                                 !.hid = Len(handlers) + 1]
           /\ handlers' = Append(handlers, NewHandler(sid, gen.key))
    /\ ui' = CallOnProgress(ui, gen.key, "sending")
    /\ progressRef' = RefOnProgress(progressRef, ui, gen.key, "sending")
    /\ UNCHANGED <<caller, event, pending, stop, calls, exited, commit, prepared, applied>>

\* createSession rejects: the catch block of generate runs
CreateSessionFail ==
    /\ Quiet
    /\ gen.pc \in {"create", "createTemp"}
    /\ ~gen.hung
    /\ LET r == CatchBlock([gen EXCEPT !.orig = ErrCreate], sessions,
                           ErrCreate)
       IN  gen' = r.gen /\ sessions' = r.sessions
    /\ UNCHANGED <<caller, session, handlers, event, pending, stop, calls,
                   progressRef, exited, ui, commit,
                   prepared, applied>>

\* an awaited backend call of generate never settles
AwaitHangs ==
    /\ Quiet
    /\ gen.pc \in {"create", "createTemp", "send", "tempDestroy",
                   "catchDestroy"}
    /\ ~gen.hung
    /\ gen' = [gen EXCEPT !.hung = TRUE]
    /\ UNCHANGED <<caller, session, sessions, handlers, event, pending, stop,
                   calls, progressRef, exited, ui, commit,
                   prepared, applied>>

\* session.send resolves: the race of done against the timeout starts
SendOk ==
    /\ Quiet
    /\ gen.pc = "send"
    /\ ~gen.hung
    /\ gen' = [gen EXCEPT !.pc = "race"]
    /\ UNCHANGED <<caller, session, sessions, handlers, event, pending, stop,
                   calls, progressRef, exited, ui, commit,
                   prepared, applied>>

\* session.send rejects
SendFail ==
    /\ Quiet
    /\ gen.pc = "send"
    /\ ~gen.hung
    /\ LET r == ThrowFromRun(gen, PromptOver(sessions, gen.sid), ErrSend)
       IN  gen' = r.gen /\ sessions' = r.sessions
    /\ handlers' = RunEnded(handlers, gen.hid)
    /\ UNCHANGED <<caller, session, event, pending, stop, calls,
                   progressRef, exited, ui, commit,
                   prepared, applied>>

\* done has resolved: the race is won, runWithSession returns or throws
AfterRace ==
    /\ ~exited
    /\ pending = <<>>
    /\ gen.pc = "race"
    /\ DoneResolved
    /\ LET r == FinishRun(gen, PromptOver(sessions, gen.sid),
                          Trim(handlers[gen.hid].acc))
       IN  gen' = r.gen /\ sessions' = r.sessions
    /\ handlers' = RunEnded(handlers, gen.hid)
    /\ UNCHANGED <<caller, session, event, pending, stop, calls,
                   progressRef, exited, ui, commit,
                   prepared, applied>>

\* COPILOT_SESSION_TIMEOUT elapses before done resolves
SessionTimeout ==
    /\ Quiet
    /\ gen.pc = "race"
    /\ LET r == ThrowFromRun(gen, PromptOver(sessions, gen.sid), ErrTimeout)
       IN  gen' = r.gen /\ sessions' = r.sessions
    /\ handlers' = RunEnded(handlers, gen.hid)
    /\ UNCHANGED <<caller, session, event, pending, stop, calls,
                   progressRef, exited, ui, commit,
                   prepared, applied>>

\* finally { await tempSession.destroy() } completes
TempDestroyOk ==
    /\ Quiet
    /\ gen.pc = "tempDestroy"
    /\ ~gen.hung
    /\ LET ss == Closed(sessions, gen.temp)
           r == IF gen.err # NoError
                THEN CatchBlock(gen, ss, gen.err)
                ELSE [gen |-> [gen EXCEPT !.pc = "returned",
                                          !.out = gen.value],
                      sessions |-> ss]
       IN  gen' = r.gen /\ sessions' = r.sessions
    /\ UNCHANGED <<caller, session, handlers, event, pending, stop, calls,
                   progressRef, exited, ui, commit,
                   prepared, applied>>

\* finally { await tempSession.destroy() } rejects
TempDestroyFail ==
    /\ Quiet
    /\ gen.pc = "tempDestroy"
    /\ ~gen.hung
    /\ LET g == [gen EXCEPT !.orig = IF @ = NoError THEN ErrDestroy ELSE @]
           r == CatchBlock(g, sessions, ErrDestroy)
       IN  gen' = r.gen /\ sessions' = r.sessions
    /\ UNCHANGED <<caller, session, handlers, event, pending, stop, calls,
                   progressRef, exited, ui, commit,
                   prepared, applied>>

\* catch { await this.session.destroy(); this.session = null; throw }
CatchDestroyOk ==
    /\ Quiet
    /\ gen.pc = "catchDestroy"
    /\ ~gen.hung
    /\ sessions' = Closed(sessions, gen.victim)
    /\ session' = 0
    /\ gen' = [gen EXCEPT !.pc = "returned",
                          !.out = Failure(Wrapped(gen.err))]
    /\ UNCHANGED <<caller, handlers, event, pending, stop, calls,
                   progressRef, exited, ui, commit,
                   prepared, applied>>

\* catch { await this.session.destroy() } rejects
CatchDestroyFail ==
    /\ Quiet
    /\ gen.pc = "catchDestroy"
    /\ ~gen.hung
    /\ gen' = [gen EXCEPT !.pc = "returned",
                          !.out = Failure(Unwrapped(ErrDestroy))]
    /\ UNCHANGED <<caller, session, sessions, handlers, event, pending, stop,
                   calls, progressRef, exited, ui, commit,
                   prepared, applied>>

(***************************************************************************)
(* The backend's event stream and the listeners of runWithSession.         *)
(***************************************************************************)
\* the backend emits an event on session sid: every listener registered on
\* the session is to be called with it
Emit(sid, ev) ==
    /\ Quiet
    /\ gen.pc \in {"send", "race"}
    /\ sid = gen.sid
    /\ sessions[sid].open
    /\ ~sessions[sid].closed
    /\ event' = ev
    /\ pending' = ListenersFrom(sid, 1)
    /\ UNCHANGED <<caller, session, handlers, gen, stop, calls,
                   progressRef, exited, ui, commit,
                   prepared, applied>>

EmitDelta ==
    \E sid \in 1..Len(sessions), chunk \in Chunks :
        /\ sessions[sid].deltas < MaxDeltas
        /\ sessions' = [sessions EXCEPT ![sid].deltas = @ + 1]
        /\ Emit(sid, [type |-> "assistant.message_delta", text |-> chunk])

EmitMessage ==
    \E sid \in 1..Len(sessions) :
        /\ ~sessions[sid].msgSent
        /\ sessions' = [sessions EXCEPT ![sid].msgSent = TRUE]
        /\ Emit(sid, [type |-> "assistant.message", text |-> SubjectText])

EmitIdle ==
    \E sid \in 1..Len(sessions) :
        /\ sessions' = [sessions EXCEPT ![sid].open = FALSE]
        /\ Emit(sid, [type |-> "session.idle", text |-> <<>>])

\* the listener of one runWithSession call is called with the event; what
\* the listener of a run that has ended adds to its fullContent or resolves
\* is read by nobody, and is left out
Deliver ==
    /\ ~exited
    /\ pending # <<>>
    /\ LET h == Head(pending)
           l == handlers[h]
           live == h = gen.hid
       IN  CASE event.type = "assistant.message_delta" ->
                  /\ handlers' = [handlers EXCEPT
                                      ![h].acc = IF live
                                                 THEN @ \o event.text
                                                 ELSE @,
                                      ![h].reported = TRUE]
                  /\ ui' = CallOnChunk(
                               IF l.reported THEN ui
                               ELSE CallOnProgress(ui, l.key, "streaming"),
                               l.key, event.text)
                  /\ progressRef' =
                         IF l.reported THEN progressRef
                         ELSE RefOnProgress(progressRef, ui, l.key,
                                            "streaming")
             [] event.type = "assistant.message" ->
                  /\ handlers' = [handlers EXCEPT
                                      ![h].acc = IF live /\ @ = <<>>
                                                 THEN event.text ELSE @]
                  /\ UNCHANGED <<ui, progressRef, prepared, applied>>
             [] OTHER ->
                  /\ handlers' = [handlers EXCEPT ![h].resolved = live]
                  /\ UNCHANGED <<ui, progressRef, prepared, applied>>
    /\ pending' = Tail(pending)
    /\ event' = IF Len(pending) = 1 THEN NoEvent ELSE event
    /\ UNCHANGED <<caller, session, sessions, gen, stop, calls, exited,
                   commit, prepared, applied>>

(***************************************************************************)
(* CommitGenerator.stop                                                    *)
(***************************************************************************)
\* stop() up to its first await
StartStop ==
    IF session # 0
    THEN /\ stop' = [stop EXCEPT !.pc = "destroy", !.sid = session]
         /\ sessions' = DestroyCall(sessions, session)
    ELSE /\ stop' = [stop EXCEPT !.pc = "clientStop"]
         /\ UNCHANGED sessions

\* stop() returns; every caller of stop() in the Dashboard's flow then
\* calls process.exit
StopReturns ==
    /\ stop' = [IdleStop EXCEPT !.count = stop.count + 1]
    /\ exited' = (caller = "dashboard")

\* await this.session.destroy() completes; client.stop() is raced
StopDestroyOk ==
    /\ Quiet
    /\ stop.pc = "destroy"
    /\ ~stop.hung
    /\ sessions' = Closed(sessions, stop.sid)
    /\ session' = 0
    /\ stop' = [stop EXCEPT !.pc = "clientStop"]
    /\ UNCHANGED <<caller, handlers, gen, event, pending, calls,
                   progressRef, exited, ui, commit,
                   prepared, applied>>

\* await this.session.destroy() rejects: the catch of stop swallows it
StopDestroyFail ==
    /\ Quiet
    /\ stop.pc = "destroy"
    /\ ~stop.hung
    /\ StopReturns
    /\ UNCHANGED <<caller, session, sessions, handlers, gen, event, pending,
                   calls, progressRef, ui, commit,
                   prepared, applied>>

\* session.destroy() or client.stop() never settles
StopAwaitHangs ==
    /\ Quiet
    /\ stop.pc \in {"destroy", "clientStop"}
    /\ ~stop.hung
    /\ stop' = [stop EXCEPT !.hung = TRUE]
    /\ UNCHANGED <<caller, session, sessions, handlers, gen, event, pending,
                   calls, progressRef, exited, ui, commit,
                   prepared, applied>>

\* client.stop() resolves or rejects
ClientStopSettles ==
    /\ Quiet
    /\ stop.pc = "clientStop"
    /\ ~stop.hung
    /\ StopReturns
    /\ UNCHANGED <<caller, session, sessions, handlers, gen, event, pending,
                   calls, progressRef, ui, commit,
                   prepared, applied>>

\* the 1000 ms timer of stop wins the race against client.stop()
StopTimeout ==
    /\ Quiet
    /\ stop.pc = "clientStop"
    /\ StopReturns
    /\ UNCHANGED <<caller, session, sessions, handlers, gen, event, pending,
                   calls, progressRef, ui, commit,
                   prepared, applied>>

(***************************************************************************)
(* A direct caller of the generator, as the non-interactive flow of cli.ts *)
(* and the tests are: it awaits each generate() before the next call and   *)
(* before stop().                                                          *)
(***************************************************************************)
\* runGenerateMessage: generate is called with customInstruction undefined
runGenerateMessage(u, key, config, modelOverride) ==
    StartGenerate(u, key, config, NoInstruction, modelOverride)

CallGenerate ==
    \E modelOverride \in {NoOverride, PremiumModel} :
        /\ Quiet
        /\ caller = "direct"
        /\ gen.pc = "idle"
        /\ stop.pc = "idle"
        /\ stop.count = 0
        /\ calls < MaxCalls
        /\ calls' = calls + 1
        /\ runGenerateMessage(ui, calls + 1, DEFAULT_CONFIG, modelOverride)
        /\ UNCHANGED <<caller, session, event, pending, stop, exited, commit, prepared, applied>>

\* the caller's await of generate() continues
GenerateSettles ==
    /\ ~exited
    /\ caller = "direct"
    /\ gen.pc = "returned"
    /\ gen' = IdleGen
    /\ UNCHANGED <<caller, session, sessions, handlers, event, pending, stop,
                   calls, progressRef, exited, ui, commit,
                   prepared, applied>>

CallStop ==
    /\ Quiet
    /\ caller = "direct"
    /\ gen.pc = "idle"
    /\ stop.pc = "idle"
    /\ stop.count < MaxStops
    /\ StartStop
    /\ UNCHANGED <<caller, session, handlers, gen, event, pending, calls,
                   progressRef, exited, ui, commit,
                   prepared, applied>>

\* process.exit after a stop() has returned
\* an exit that does not wait for stop()
ProcessExitEarly ==
    /\ Quiet
    /\ caller = "direct"
    /\ exited' = TRUE
    /\ UNCHANGED <<caller, session, sessions, handlers, gen, event, pending,
                   stop, calls, progressRef, ui, commit,
                   prepared, applied>>

ProcessExit ==
    /\ Quiet
    /\ caller = "direct"
    /\ stop.pc = "idle"
    /\ stop.count > 0
    /\ exited' = TRUE
    /\ UNCHANGED <<caller, session, sessions, handlers, gen, event, pending,
                   stop, calls, progressRef, ui, commit,
                   prepared, applied>>

GeneratorStep ==
    \/ CreateSessionOk
    \/ CreateSessionFail
    \/ AwaitHangs
    \/ SendOk
    \/ SendFail
    \/ AfterRace
    \/ SessionTimeout
    \/ TempDestroyOk
    \/ TempDestroyFail
    \/ CatchDestroyOk
    \/ CatchDestroyFail
    \/ EmitDelta
    \/ EmitMessage
    \/ EmitIdle
    \/ Deliver
    \/ StopDestroyOk
    \/ StopDestroyFail
    \/ StopAwaitHangs
    \/ ClientStopSettles
    \/ StopTimeout

InitGenerator ==
    /\ session = 0
    /\ sessions = <<>>
    /\ handlers = <<>>
    /\ gen = IdleGen
    /\ event = NoEvent
    /\ pending = <<>>
    /\ stop = IdleStop
    /\ calls = 0
    /\ progressRef = "connecting"
    /\ exited = FALSE
    /\ ui = InitialUi
    /\ commit = NoCommit

Init ==
    /\ caller = "direct"
    /\ InitGenerator
    /\ prepared = NoPrepared
    /\ applied = NoApplied

Next ==
    \/ GeneratorStep
    \/ CallGenerate
    \/ GenerateSettles
    \/ CallStop
    \/ ProcessExit

Spec == Init /\ [][Next]_vars

(***************************************************************************)
(* The Dashboard.                                                          *)
(***************************************************************************)
\* err.message of an error generate() or commit() rejected with
ErrorMessage(error) == <<error.prefix, error.cause>>

ErrCommit == "commit failed"

\* onError of cli.ts: generator.stop().then(() => { ...; process.exit(1) }),
\* and every other generator.stop() of the interactive flow
CallsStop ==
    IF stop.pc = "idle"
    THEN StartStop
    ELSE UNCHANGED <<stop, sessions, prepared, applied>>

\* generateMessage(currentConfig, instruction, modelOverride) up to its await
generateMessage(u, currentConfig, instruction, modelOverride) ==
    LET reset == [u EXCEPT !.message = <<>>,
                           !.fullMessage = <<>>,
                           !.phase = "session",
                           !.error = NoError,
                           !.generationKey = @ + 1,
                           !.instruction = instruction]
    IN  /\ u.generationKey < MaxGenerations
        /\ runGenerateMessage(reset, reset.generationKey, currentConfig,
                              modelOverride)

\* useRunOnceOnMount: the initial generation, with the premium model when
\* the diff was truncated and preferPremiumForLargeDiffs is set
Mount ==
    \E usePremium \in {NoOverride, PremiumModel} :
        /\ Quiet
        /\ caller = "dashboard"
        /\ ~ui.mounted
        /\ generateMessage([ui EXCEPT !.mounted = TRUE], DEFAULT_CONFIG,
                           NoInstruction, usePremium)
        /\ UNCHANGED <<caller, session, event, pending, stop, calls, exited,
                       commit, prepared, applied>>

\* generateMessage after its await: the result or the error is applied if
\* the key of the call is still the current one
GenerationSettles ==
    /\ ~exited
    /\ caller = "dashboard"
    /\ gen.pc = "returned"
    /\ gen' = IdleGen
    /\ IF gen.key # ui.generationKey
       THEN UNCHANGED <<ui, stop, sessions, prepared, applied>>
       ELSE IF gen.out.status = "ok"
       THEN /\ ui' = [ui EXCEPT !.message = gen.out.message,
                                !.fullMessage = gen.out.message,
                                !.viewState = "ready"]
            /\ UNCHANGED <<stop, sessions, prepared, applied>>
       ELSE /\ ui' = [ui EXCEPT !.error = ErrorMessage(gen.out.error),
                                !.viewState = "ready"]
            /\ CallsStop
    /\ UNCHANGED <<caller, session, handlers, event, pending, calls,
                   progressRef, exited, commit,
                   prepared, applied>>

\* a ChoiceMenu rendered whatever the view state
showMenuAlways == ui.mounted

\* a ChoiceMenu rendered in ready whatever the error and the message
showMenuOnReady == ui.mounted /\ ui.viewState = "ready"

\* the ChoiceMenu is rendered
showMenu ==
    /\ ui.mounted
    /\ ui.viewState = "ready"
    /\ ui.error = NoError
    /\ ui.fullMessage # <<>>

\* handleAction("commit") up to its await
HandleCommit ==
    /\ Quiet
    /\ caller = "dashboard"
    /\ showMenu
    /\ commit.pc = "idle"
    /\ ui' = [ui EXCEPT !.viewState = "committing"]
    /\ commit' = [pc |-> "running",
                  message |-> IF ui.fullMessage # <<>>
                              THEN ui.fullMessage
                              ELSE ui.message]
    /\ UNCHANGED <<caller, session, sessions, handlers, gen, event, pending,
                   stop, calls, progressRef, exited,
                   prepared, applied>>

\* commit resolves: await generator.stop(); onComplete()
CommitOk ==
    /\ Quiet
    /\ commit.pc = "running"
    /\ commit' = [commit EXCEPT !.pc = "done"]
    /\ CallsStop
    /\ UNCHANGED <<caller, session, handlers, gen, event, pending, calls,
                   progressRef, exited, ui,
                   prepared, applied>>

\* commit rejects: the error is shown, the view returns to ready, onError
CommitFail ==
    /\ Quiet
    /\ commit.pc = "running"
    /\ commit' = NoCommit
    /\ ui' = [ui EXCEPT !.error = ErrorMessage(Unwrapped(ErrCommit)),
                        !.viewState = "ready"]
    /\ CallsStop
    /\ UNCHANGED <<caller, session, handlers, gen, event, pending, calls,
                   progressRef, exited,
                   prepared, applied>>

\* handleAction("regenerate")
HandleRegenerate ==
    /\ Quiet
    /\ caller = "dashboard"
    /\ showMenu
    /\ ui' = [ui EXCEPT !.viewState = "style-selection"]
    /\ UNCHANGED <<caller, session, sessions, handlers, gen, event, pending,
                   stop, calls, progressRef, exited, commit,
                   prepared, applied>>

\* handleAction("cancel"), and the q key of useInput:
\* generator.stop() and then onComplete()
HandleCancel ==
    /\ Quiet
    /\ caller = "dashboard"
    /\ ui.mounted
    /\ stop.pc = "idle"
    /\ StartStop
    /\ UNCHANGED <<caller, session, handlers, gen, event, pending, calls,
                   progressRef, exited, ui, commit,
                   prepared, applied>>

\* the instruction handleStyleSelect hands to generateMessage
StyleInstruction(style, customInstruction) ==
    IF style = "same" THEN customInstruction ELSE NoInstruction

\* the configuration handleStyleSelect regenerates with
StyleConfig(style, config) ==
    IF style \in {"detailed", "minimal"}
    THEN [config EXCEPT !.verbosity = style]
    ELSE config

\* handleStyleSelect(style), the StyleOptionsMenu being rendered
HandleStyleSelect ==
    \E style \in {"same", "detailed", "minimal", "premium", "custom"} :
        /\ Quiet
        /\ caller = "dashboard"
        /\ ui.viewState = "style-selection"
        /\ IF style = "custom"
           THEN /\ ui' = [ui EXCEPT !.viewState = "custom-instruction",
                                    !.style = style]
                /\ UNCHANGED <<sessions, handlers, gen, progressRef, prepared, applied>>
           ELSE IF style = "premium"
           THEN generateMessage([ui EXCEPT !.viewState = "regenerating",
                                           !.style = style],
                                ui.config, NoInstruction, PremiumModel)
           ELSE generateMessage(
                    [ui EXCEPT !.viewState = "regenerating",
                               !.style = style,
                               !.config = StyleConfig(style, @)],
                    StyleConfig(style, ui.config),
                    StyleInstruction(style, ui.customInstruction),
                    NoOverride)
        /\ UNCHANGED <<caller, session, event, pending, stop, calls, exited,
                       commit, prepared, applied>>

\* handleCustomInstruction(instruction), the InstructionInput being rendered
HandleCustomInstruction ==
    \E instruction \in Instructions :
        /\ Quiet
        /\ caller = "dashboard"
        /\ ui.viewState = "custom-instruction"
        /\ generateMessage([ui EXCEPT !.customInstruction = instruction,
                                      !.viewState = "regenerating"],
                           ui.config, instruction, NoOverride)
        /\ UNCHANGED <<caller, session, event, pending, stop, calls, exited,
                       commit, prepared, applied>>

\* handleCancelCustomInstruction: an empty line was submitted
HandleCancelCustomInstruction ==
    /\ Quiet
    /\ caller = "dashboard"
    /\ ui.viewState = "custom-instruction"
    /\ ui' = [ui EXCEPT !.viewState = "ready"]
    /\ UNCHANGED <<caller, session, sessions, handlers, gen, event, pending,
                   stop, calls, progressRef, exited, commit,
                   prepared, applied>>

DashInit ==
    /\ caller = "dashboard"
    /\ InitGenerator
    /\ prepared = NoPrepared
    /\ applied = NoApplied

DashNext ==
    \/ GeneratorStep
    \/ Mount
    \/ GenerationSettles
    \/ HandleCommit
    \/ CommitOk
    \/ CommitFail
    \/ HandleRegenerate
    \/ HandleCancel
    \/ HandleStyleSelect
    \/ HandleCustomInstruction
    \/ HandleCancelCustomInstruction

DashSpec == DashInit /\ [][DashNext]_vars

(***************************************************************************)
(* The CLI: main runs either the non-interactive flow or the Dashboard.    *)
(***************************************************************************)
CliInit ==
    /\ caller \in {"direct", "dashboard"}
    /\ InitGenerator
    /\ prepared = NoPrepared
    /\ applied = NoApplied

CliNext == Next \/ DashNext

CliSpec == CliInit /\ [][CliNext]_vars

(***************************************************************************)
(* collapseImportLines applied to a chunk, a path and a config, each drawn *)
(* from a bounded set.                                                     *)
(***************************************************************************)
\* the lines of the model's chunks: an added import, a removed import, an
\* added line that is no import, a context line
AddedImport == <<"+", "i", "m", "p", "o", "r", "t", " ", "a">>

RemovedImport == <<"-", "i", "m", "p", "o", "r", "t", " ", "b">>

AddedCode == <<"+", "x", " ", "=", " ", "1">>

ContextLine == <<" ", "i", "m", "p", "o", "r", "t", " ", "c">>

ChunkLines == {AddedImport, RemovedImport, AddedCode, ContextLine}

\* the most lines a chunk holds after its header
MaxChunkLines == 3

\* the paths of the model's chunks: a language with import patterns, an
\* extension getLanguageFromPath does not list, a listed extension without
\* import patterns, a YAML file
PathTs == <<"x", ".", "t", "s">>

PathRb == <<"x", ".", "r", "b">>

PathYml == <<"x", ".", "y", "m", "l">>

ChunkPaths == {PathTs, PathMd, PathRb, PathYml}

\* the chunk of a path with the lines body
ChunkOf(path, body) ==
    JoinLines(<<DiffGit \o <<"a", "/">> \o path \o <<" ", "b", "/">> \o path>>
                  \o body)

ChunkBodies == UNION {[1..n -> ChunkLines] : n \in 1..MaxChunkLines}

CollapseConfigs == {[importCollapse |-> TRUE], [importCollapse |-> FALSE]}

CollapseCalled(path, body, config) ==
    [fn |-> "collapseImportLines", pc |-> "called", path |-> path,
     chunk |-> ChunkOf(path, body), config |-> config, out |-> <<>>]

\* collapseImportLines(chunk, path, config) returns
ApplyCollapse ==
    /\ applied.fn = "collapseImportLines"
    /\ applied.pc = "called"
    /\ applied' =
           [applied EXCEPT
               !.pc = "returned",
               !.out = collapseImportLines(applied.chunk, applied.path,
                                           applied.config)]
    /\ UNCHANGED <<caller, session, sessions, handlers, gen, event, pending,
                   stop, calls, progressRef, exited, ui, commit, prepared>>

(***************************************************************************)
(* parseCommitMessage applied to a raw text and a config, each drawn from  *)
(* a bounded set.  A subject of the set is written down with the parts a   *)
(* reader sees in it, so that the result can be compared with them.        *)
(***************************************************************************)
Chore == <<"c", "h", "o", "r", "e">>

\* a first line with the type, scope and description it is made of
PlainSubject ==
    [text |-> SubjectText, type |-> <<"f", "i", "x">>, scope |-> NoScope,
     description |-> <<"a">>]

ScopedSubject ==
    [text |-> <<"f", "i", "x", "(", "u", "i", ")", ":", " ", "a">>,
     type |-> <<"f", "i", "x">>, scope |-> <<"u", "i">>,
     description |-> <<"a">>]

LongSubject ==
    [text |-> <<"f", "e", "a", "t", ":", " ", "a", "b", "c", "d", "e", "f",
                "g", "h">>,
     type |-> <<"f", "e", "a", "t">>, scope |-> NoScope,
     description |-> <<"a", "b", "c", "d", "e", "f", "g", "h">>]

\* a type EMOJI_MAP does not list
UnmappedSubject ==
    [text |-> <<"z", "z", ":", " ", "a">>, type |-> <<"z", "z">>,
     scope |-> NoScope, description |-> <<"a">>]

\* first lines that are not conventional: type "chore", the line described
FreeSubject ==
    [text |-> <<"h", "i", " ", "a", "l", "l">>, type |-> Chore,
     scope |-> NoScope, description |-> <<"h", "i", " ", "a", "l", "l">>]

EmptyScopeSubject ==
    [text |-> <<"f", "i", "x", "(", ")", ":", " ", "a">>, type |-> Chore,
     scope |-> NoScope,
     description |-> <<"f", "i", "x", "(", ")", ":", " ", "a">>]

Subjects ==
    {PlainSubject, ScopedSubject, LongSubject, UnmappedSubject, FreeSubject,
     EmptyScopeSubject}

\* the raw texts of a subject: alone, with a body line, inside a fence
WithBody(text) == text \o <<NL, NL, "b">>

Fenced(text) == <<BQ, BQ, BQ, NL>> \o text \o <<NL, BQ, BQ, BQ>>

RawTexts(subject) ==
    {subject.text, WithBody(subject.text), Fenced(subject.text)}

\* the values of maxSubjectLength: shorter than the ellipsis, shorter than
\* most subjects, the default
SubjectLengths == {2, 8, DEFAULT_CONFIG.maxSubjectLength}

ParseConfigs ==
    {[DEFAULT_CONFIG EXCEPT !.conventionalCommit = conventional,
                            !.includeScope = scoped,
                            !.includeEmoji = emoji,
                            !.maxSubjectLength = length] :
        conventional \in BOOLEAN, scoped \in BOOLEAN, emoji \in BOOLEAN,
        length \in SubjectLengths}

ParseCalled(subject, raw, config) ==
    [fn |-> "parseCommitMessage", pc |-> "called", subject |-> subject,
     raw |-> raw, config |-> config, out |-> <<>>]

\* parseCommitMessage(raw, config) returns or throws
ApplyParse ==
    /\ applied.fn = "parseCommitMessage"
    /\ applied.pc = "called"
    /\ applied' =
           [applied EXCEPT
               !.pc = "returned",
               !.out = parseCommitMessage(applied.raw, applied.config)]
    /\ UNCHANGED <<caller, session, sessions, handlers, gen, event, pending,
                   stop, calls, progressRef, exited, ui, commit, prepared>>

(***************************************************************************)
(* getEffectiveDiffLimit and loadConfig applied to bounded inputs.  A      *)
(* number of a config file is a JSON number or null: Null carries 0 as n,  *)
(* the number JavaScript makes of null in a comparison or a product.  A    *)
(* field the file leaves out is not in the domain of the record.           *)
(***************************************************************************)
Num(n) == [null |-> FALSE, n |-> n]

Null == [null |-> TRUE, n |-> 0]

MAX_DIFF_LENGTH == 8000

\* Math.floor(tokenLimit * CHARS_PER_TOKEN), CHARS_PER_TOKEN = 3.5
MaxCharsFromTokens(tokenLimit) == (7 * tokenLimit.n) \div 2

Min(a, b) == IF a < b THEN a ELSE b

\* config.maxDiffLength ?? MAX_DIFF_LENGTH
CharLimit(config) ==
    IF "maxDiffLength" \in DOMAIN config /\ ~config.maxDiffLength.null
    THEN config.maxDiffLength.n
    ELSE MAX_DIFF_LENGTH

getEffectiveDiffLimit(config) ==
    IF "maxDiffTokens" \notin DOMAIN config
    THEN CharLimit(config)
    ELSE Min(CharLimit(config), MaxCharsFromTokens(config.maxDiffTokens))

\* the field name with the value of option, a set of one value, or no
\* field when option is empty
Opt(name, option) ==
    IF option = {} THEN <<>> ELSE name :> (CHOOSE v \in option : TRUE)

\* the lengths and token counts of the configs: a length below and above
\* the default, token counts of an even and an odd number of half
\* characters, below and above the length
LimitConfigs ==
    {Opt("maxDiffLength", length) @@ Opt("maxDiffTokens", tokens) :
        length \in {{}, {Null}, {Num(100)}, {Num(20000)}},
        tokens \in {{}, {Null}, {Num(0)}, {Num(3)}, {Num(1000)},
                    {Num(5000)}}}

LimitCalled(config) ==
    [fn |-> "getEffectiveDiffLimit", pc |-> "called", config |-> config,
     out |-> 0]

\* getEffectiveDiffLimit(config) returns
ApplyLimit ==
    /\ applied.fn = "getEffectiveDiffLimit"
    /\ applied.pc = "called"
    /\ applied' = [applied EXCEPT
                      !.pc = "returned",
                      !.out = getEffectiveDiffLimit(applied.config)]
    /\ UNCHANGED <<caller, session, sessions, handlers, gen, event, pending,
                   stop, calls, progressRef, exited, ui, commit, prepared>>

(***************************************************************************)
(* loadConfig: the config file is absent, unreadable as JSON, the JSON     *)
(* null, or an object with some fields.  maxSubjectLength and              *)
(* elevationMinLines are integers, elevationThreshold a fraction,          *)
(* maxDiffLength and maxDiffTokens JSON numbers or null.                   *)
(***************************************************************************)
\* DEFAULT_CONFIG with the model names
Defaults ==
    [model |-> DefaultModel, premiumModel |-> PremiumModel] @@ DEFAULT_CONFIG

\* the fields validateConfig looks at, in its order
ValidatedFields ==
    <<"maxSubjectLength", "verbosity", "maxDiffLength", "maxDiffTokens",
      "elevationThreshold", "elevationMinLines">>

\* the condition under which validateConfig pushes the warning of a field
Warned(config, field) ==
    /\ field \in DOMAIN config
    /\ CASE field = "maxSubjectLength" -> config.maxSubjectLength < 20
         [] field = "verbosity" ->
                /\ config.verbosity # ""
                /\ config.verbosity \notin {"minimal", "normal", "detailed"}
         [] field = "maxDiffLength" ->
                \/ config.maxDiffLength.n < 0
                \/ config.maxDiffLength.n > 2 * 1024 * 1024
         [] field = "maxDiffTokens" ->
                \/ config.maxDiffTokens.n < 0
                \/ config.maxDiffTokens.n > 500000
         [] field = "elevationThreshold" ->
                \/ config.elevationThreshold[1] < 0
                \/ config.elevationThreshold[1] > config.elevationThreshold[2]
         [] field = "elevationMinLines" -> config.elevationMinLines < 0

\* validateConfig(config): the fields warned about
validateConfig(config) ==
    SelectSeq(ValidatedFields, LAMBDA field : Warned(config, field))

NoFile == [kind |-> "none", fields |-> <<>>]

Unparsable == [kind |-> "unparsable", fields |-> <<>>]

NullFile == [kind |-> "null", fields |-> <<>>]

ObjectFile(fields) == [kind |-> "object", fields |-> fields]

NoEnv == ""

\* what console.warn gets: the warnings, or the failure to parse
FailedToParse == <<"Failed to parse config">>

Warnings(file, debug) ==
    IF ~debug THEN <<>>
    ELSE IF file.kind = "object" THEN validateConfig(file.fields)
    ELSE IF file.kind \in {"unparsable", "null"} THEN FailedToParse
    ELSE <<>>

\* { ...DEFAULT_CONFIG, ...fileConfig } with fileConfig.model from
\* COMMIT_AI_MODEL if set
Merged(file, envModel) ==
    (IF envModel # NoEnv THEN "model" :> envModel ELSE <<>>)
        @@ file.fields @@ Defaults

\* loadConfig(): ok = FALSE is the TypeError of fileConfig.model = ... on
\* the null a file holding "null" parses to
loadConfig(file, debug, envModel) ==
    [ok |-> ~(file.kind = "null" /\ envModel # NoEnv),
     config |-> Merged(file, envModel),
     warnings |-> Warnings(file, debug)]

\* the config files of the model: each field left out, valid or invalid
FileFields ==
    {Opt("maxSubjectLength", subject) @@ Opt("verbosity", verbosity)
         @@ Opt("maxDiffLength", length) @@ Opt("maxDiffTokens", tokens)
         @@ Opt("elevationThreshold", threshold)
         @@ Opt("elevationMinLines", lines) :
        subject \in {{}, {2}, {50}},
        verbosity \in {{}, {"loud"}, {"detailed"}},
        length \in {{}, {Num(0 - 1)}, {Num(100)}},
        tokens \in {{}, {Null}, {Num(600000)}},
        threshold \in {{}, {<<3, 2>>}},
        lines \in {{}, {0 - 1}}}

ConfigFiles ==
    {NoFile, Unparsable, NullFile} \cup {ObjectFile(f) : f \in FileFields}

LoadCalled(file, debug, envModel) ==
    [fn |-> "loadConfig", pc |-> "called", file |-> file, debug |-> debug,
     envModel |-> envModel, out |-> <<>>]

\* loadConfig() returns or throws
ApplyLoad ==
    /\ applied.fn = "loadConfig"
    /\ applied.pc = "called"
    /\ applied' = [applied EXCEPT
                      !.pc = "returned",
                      !.out = loadConfig(applied.file, applied.debug,
                                         applied.envModel)]
    /\ UNCHANGED <<caller, session, sessions, handlers, gen, event, pending,
                   stop, calls, progressRef, exited, ui, commit, prepared>>

(***************************************************************************)
(* The specification of the diff preparation.                              *)
(***************************************************************************)
\* const { content, wasTruncated } = getSmartDiff(diff.staged, diff.stat,
\* config, effectiveLimit)
PrepareDiff ==
    /\ prepared.pc = "staged"
    /\ prepared' =
           Done(prepared,
                CollapsedDiff(sanitizeDiff(prepared.diff), prepared.config),
                ElevatedPaths(prepared.stat, prepared.config),
                getSmartDiff(prepared.diff, prepared.stat, prepared.config,
                             prepared.effectiveLimit))
    /\ UNCHANGED <<caller, session, sessions, handlers, gen, event, pending,
                   stop, calls, progressRef, exited, ui, commit, applied>>

DiffInit ==
    /\ caller = "prepare"
    /\ InitGenerator
    /\ applied = NoApplied
    /\ \E diff \in Diffs, stat \in Stats, config \in DiffConfigs,
          effectiveLimit \in Limits :
           prepared = Staged(diff, stat, config, effectiveLimit)

DiffNext == PrepareDiff

DiffSpec == DiffInit /\ [][DiffNext]_vars

(***************************************************************************)
(* Properties.                                                             *)
(***************************************************************************)
\* what the Dashboard displays
Displayed ==
    <<ui.message, ui.fullMessage, ui.phase, ui.viewState, ui.error>>

\* the next step hands an event or a result of a generation other than the
\* current one to the Dashboard
StaleCallback ==
    \/ pending # <<>> /\ handlers[Head(pending)].key # ui.generationKey
    \/ gen.pc = "returned" /\ gen.key # ui.generationKey

\* C1: in the Dashboard, once a later generation has been started, no chunk,
\* progress phase, result or failure of an earlier generation changes
\* message, fullMessage, phase, viewState or error.
C1_StaleSuppressed ==
    [][caller = "dashboard" /\ StaleCallback => Displayed' = Displayed]_vars

\* a delta of the current generation has just been handed to the listener
\* an earlier generation left on the reused session, and is now to be handed
\* to the current generation's listener
C1_Witness ==
    /\ caller = "dashboard"
    /\ event.type = "assistant.message_delta"
    /\ pending # <<>>
    /\ Head(pending) = gen.hid
    /\ gen.key = ui.generationKey
    /\ \E h \in 1..Len(handlers) :
           /\ h < gen.hid
           /\ handlers[h].sid = gen.sid
           /\ handlers[h].key # ui.generationKey
           /\ handlers[h].reported

\* session.destroy() has been neither invoked on the session nor completed
Untouched(ss, sid) ==
    /\ ss[sid].destroyCalls = sessions[sid].destroyCalls
    /\ ss[sid].closed = sessions[sid].closed

\* C2: no step of a generate call with a modelOverride creates, replaces,
\* destroys or clears the reusable session, whether the call succeeds or
\* fails.
C2_OverrideLeavesSession ==
    [][gen.pc # "idle" /\ gen.override # NoOverride
           => /\ session' = session
              /\ session # 0 => Untouched(sessions', session)]_vars

\* C3: after a failed default-model generate call the reusable-session
\* reference is cleared and the session it held is destroyed.
C3_FailureClearsSession ==
    gen.pc = "returned" /\ gen.override = NoOverride
                        /\ gen.out.status = "error"
        => /\ session = 0
           /\ gen.sid # 0 => sessions[gen.sid].closed

\* the sessions of the default model that nobody has asked to destroy
LiveReusable ==
    {sid \in 1..Len(sessions) :
        /\ sessions[sid].model = DefaultModel
        /\ sessions[sid].destroyCalls = 0}

\* C4: a successful default-model call leaves its session as the reusable
\* one; a default-model call that finds a reusable session does not invoke
\* createSession and runs on that session; and there is at most one live
\* reusable session at any time.
C4_SessionReuse ==
    /\ gen.pc = "returned" /\ gen.override = NoOverride
                           /\ gen.out.status = "ok"
           => session = gen.sid /\ ~sessions[gen.sid].closed
    /\ gen.pc # "idle" /\ gen.override = NoOverride /\ gen.entrySession # 0
           => /\ gen.creates = 0
              /\ gen.sid = gen.entrySession
    /\ Cardinality(LiveReusable) <= 1

\* the second of two consecutive successful default-model calls has
\* returned, and one session has been created in all
C4_Witness ==
    /\ calls = 2
    /\ gen.pc = "returned"
    /\ gen.override = NoOverride
    /\ gen.out.status = "ok"
    /\ gen.entrySession # 0
    /\ gen.creates = 0
    /\ Len(sessions) = 1
    /\ sessions[gen.sid].destroyCalls = 0

\* C5: a call whose event stream never signals idle fails with the session
\* timeout error, and the reusable session it ran on is destroyed and its
\* reference cleared.
C5_TimeoutTearsDown ==
    gen.pc = "returned" /\ gen.orig = ErrTimeout
        => /\ gen.out = Failure(Wrapped(ErrTimeout))
           /\ gen.temp = 0 => session = 0 /\ sessions[gen.sid].closed

\* a step by which the generate call in flight goes on
GenerateAdvances ==
    \/ CreateSessionOk
    \/ CreateSessionFail
    \/ SendOk
    \/ SendFail
    \/ Deliver
    \/ AfterRace
    \/ SessionTimeout
    \/ TempDestroyOk
    \/ TempDestroyFail
    \/ CatchDestroyOk
    \/ CatchDestroyFail

\* C6: every generate call eventually completes, also when createSession
\* or send never settles: while a call waits for either, a step by which
\* it goes on (an answer of the backend or a timer of its own) is to come.
C6_GenerateCompletes ==
    ~exited /\ gen.pc \in {"create", "createTemp", "send"}
        => ENABLED GenerateAdvances

\* a step by which the stop call in flight goes on
StopAdvances ==
    \/ StopDestroyOk
    \/ StopDestroyFail
    \/ ClientStopSettles
    \/ StopTimeout

\* C7: stop() returns in bounded time whatever session.destroy and
\* client.stop do: while a call waits, a step by which it goes on (an
\* answer of the backend or its own timer) is to come.
C7_StopReturns ==
    Quiet /\ stop.pc # "idle" => ENABLED StopAdvances

\* C8: when a generation fails and destroying a session during the cleanup
\* fails as well, generate reports the original failure.
C8_OriginalFailureReported ==
    gen.pc = "returned" /\ gen.out.status = "error"
        => gen.out.error = Wrapped(gen.orig)

C10_SameReplaysInstruction ==
    /\ caller = "dashboard" /\ gen.pc # "idle" /\ ui.style = "same"
           => gen.instruction = ui.customInstruction
    /\ ui.style \in {"detailed", "minimal", "premium"}
           => ui.customInstruction = NoInstruction

\* the commit has just failed: its error is the one displayed
CommitFailed ==
    /\ caller = "dashboard"
    /\ ui.error # NoError
    /\ ui.error = ErrorMessage(Unwrapped(ErrCommit))

\* C11: when the commit fails the Dashboard is back in ready with the error
\* shown and the message kept, and the commit action can be chosen again.
C11_CommitRetry ==
    CommitFailed
        => /\ ui.viewState = "ready"
           /\ ui.fullMessage # <<>>
           /\ showMenu
           /\ stop.pc = "idle" /\ ~exited

\* the quit key or the cancel action has called stop(), which has not
\* returned yet
CancelRequested ==
    /\ caller = "dashboard"
    /\ stop.pc # "idle"
    /\ ui.error = NoError
    /\ commit.pc # "done"

\* C12: once cancel has been requested, in whatever view state, the
\* machine is on its way to the cancelled end: commit is not invoked any
\* more.
C12_CancelTerminal ==
    [][CancelRequested /\ commit.pc = "idle" => commit'.pc = "idle"]_vars

\* the transitions of viewState the Dashboard is specified to make
Transitions ==
    {<<"generating", "ready">>,
     <<"ready", "style-selection">>,
     <<"style-selection", "regenerating">>,
     <<"style-selection", "custom-instruction">>,
     <<"custom-instruction", "regenerating">>,
     <<"regenerating", "ready">>,
     <<"ready", "committing">>,
     <<"committing", "ready">>}

\* C13: viewState changes only along the specified transitions; a
\* regeneration stays in regenerating until its result moves it to ready.
C13_ViewTransitions ==
    [][caller = "dashboard" /\ ui'.viewState # ui.viewState
           => <<ui.viewState, ui'.viewState>> \in Transitions]_vars

MaxAttempts == 2

\* the most files of a diff whose prompts are built
MaxPromptFiles == 2

\* the prompt buildUserPrompt returns, by its parts: the stat summary, the
\* diff content, whether the truncation note follows it, and the user
\* instruction
PromptOf(smart, stat, customInstruction) ==
    [stat |-> stat, content |-> smart.content,
     truncationNote |-> smart.wasTruncated,
     instruction |-> customInstruction]

\* buildUserPrompt(diff, config, context, customInstruction, stat), the
\* limit being getEffectiveDiffLimit(config): it takes no prompt options
buildUserPrompt(diff, config, effectiveLimit, customInstruction, stat) ==
    PromptOf(getSmartDiff(diff, stat, config, effectiveLimit), stat,
             customInstruction)

\* the non-interactive flow generates once, the Dashboard regenerates
AttemptsOf(flow) == IF flow = "direct" THEN 1 ELSE MaxAttempts

\* a generation attempt: runGenerateMessage hands truncatedDiff to
\* generate(), the non-interactive flow with alreadyTruncated and
\* wasTruncated, the Dashboard without them, and generate() builds the
\* prompt from it
BuildPrompt ==
    /\ prepared.pc = "prepared"
    /\ Len(prepared.prompts) < AttemptsOf(caller)
    /\ \E instruction \in {NoInstruction} \cup Instructions :
           /\ Len(prepared.prompts) = 0 => instruction = NoInstruction
           /\ prepared' =
                  [prepared EXCEPT
                      !.prompts =
                          Append(@, buildUserPrompt(prepared.content,
                                                    prepared.config,
                                                    prepared.effectiveLimit,
                                                    instruction,
                                                    prepared.stat))]
    /\ UNCHANGED <<caller, session, sessions, handlers, gen, event, pending,
                   stop, calls, progressRef, exited, ui, commit, applied>>

PromptDiffs == {DiffText(fs) : fs \in {f \in FileLists : Len(f) <= MaxPromptFiles}}

PromptInit ==
    /\ caller \in {"direct", "dashboard"}
    /\ InitGenerator
    /\ applied = NoApplied
    /\ \E diff \in PromptDiffs, stat \in {NoStat, StatNine},
          effectiveLimit \in Limits :
           prepared = Staged(diff, stat, PlainDiffConfig, effectiveLimit)

PromptNext == PrepareDiff \/ BuildPrompt

PromptSpec == PromptInit /\ [][PromptNext]_vars

(***************************************************************************)
(* The specification of the functions applied on their own.                *)
(***************************************************************************)
FnInit ==
    /\ caller = "none"
    /\ InitGenerator
    /\ prepared = NoPrepared
    /\ \/ \E path \in ChunkPaths, body \in ChunkBodies,
             config \in CollapseConfigs :
              applied = CollapseCalled(path, body, config)
       \/ \E subject \in Subjects, config \in ParseConfigs :
              \E raw \in RawTexts(subject) :
                  applied = ParseCalled(subject, raw, config)
       \/ \E config \in LimitConfigs : applied = LimitCalled(config)
       \/ \E file \in ConfigFiles, debug \in BOOLEAN,
             envModel \in {NoEnv, PremiumModel} :
              applied = LoadCalled(file, debug, envModel)

FnNext ==
    \/ ApplyCollapse
    \/ ApplyParse
    \/ ApplyLimit
    \/ ApplyLoad

FnSpec == FnInit /\ [][FnNext]_vars

(***************************************************************************)
(* The smart diff.                                                         *)
(***************************************************************************)
\* a chunk of result was pushed in part: header line, elision marker, tail
Elided == \E k \in 1..Len(prepared.result) : ~prepared.result[k].whole

\* C16: for every diff, stat, config and limit, the content getSmartDiff
\* returns is at most effectiveLimit characters long, also when a chunk is
\* kept in part and when a single chunk is cut line by line.
C16_ContentWithinLimit ==
    prepared.pc = "prepared"
        => Len(prepared.content) <= prepared.effectiveLimit

\* C17: for a diff that is at most effectiveLimit characters long,
\* getSmartDiff returns exactly the sanitized and import-collapsed diff, and
\* wasTruncated is false.
C17_ShortDiffUnchanged ==
    prepared.pc = "prepared" /\ Len(prepared.diff) <= prepared.effectiveLimit
        => /\ prepared.content = prepared.collapsed
           /\ ~prepared.wasTruncated

\* the chunk at place k of sorted was pushed whole
TakenWhole(k) ==
    \E n \in 1..Len(prepared.result) :
        prepared.result[n].rank = k /\ prepared.result[n].whole

\* the chunk at place k of sorted was pushed, whole or in part
Taken(k) ==
    \E n \in 1..Len(prepared.result) : prepared.result[n].rank = k

\* sorted is in the order of effective priority descending
InPriorityOrder ==
    \A j, k \in 1..Len(prepared.sorted) :
        j < k => EffectivePriority(prepared.sorted[j],
                                   prepared.elevatedPaths)
                   >= EffectivePriority(prepared.sorted[k],
                                        prepared.elevatedPaths)

\* C18: truncating a diff of two or more chunks takes the chunks by
\* effective tier descending, appends whole chunks while they fit, and once
\* a chunk does not fit (it is not taken whole) includes no later chunk.
C18_StopsAtFirstMisfit ==
    prepared.pc = "prepared"
        => /\ InPriorityOrder
           /\ \A j, k \in 1..Len(prepared.sorted) :
                  j < k /\ ~TakenWhole(j) => ~Taken(k)

\* the header line git diff prints for a path
HeaderLine(path) ==
    DiffGit \o <<"a", "/">> \o path \o <<" ", "b", "/">> \o path

\* the content holds the header line of the path's chunk
Holds(content, path) ==
    \E i \in 1..Len(content) :
        AtLineStart(content, i) /\ OccursAt(content, i, HeaderLine(path))

\* the entry of a low-tier file that accounts for at least the threshold
\* fraction of the changed lines of counts, which are minLines or more
Dominant(entry, counts, threshold, minLines) ==
    /\ pathPriority(entry.path) <= 1
    /\ TotalLines(counts, 1) >= minLines
    /\ TotalLines(counts, 1) > 0
    /\ (entry.added + entry.removed) * threshold[2]
           >= threshold[1] * TotalLines(counts, 1)

\* sorted holds the path, and a tier-2 file that is not elevated
VersusTierTwo(path) ==
    /\ \E k \in 1..Len(prepared.sorted) : prepared.sorted[k] = path
    /\ \E k \in 1..Len(prepared.sorted) :
           EffectivePriority(prepared.sorted[k], prepared.elevatedPaths) = 2

\* C19 for the entries counts of the stat
ElevationWins(counts) ==
    \A k \in 1..Len(counts) :
        Dominant(counts[k], counts, ThresholdOf(prepared.config),
                 MinLinesOf(prepared.config))
            => /\ counts[k].path \in prepared.elevatedPaths
               /\ VersusTierTwo(counts[k].path)
                      => Holds(prepared.content, counts[k].path)

\* C19: a tier-0/1 file that accounts for at least the threshold fraction
\* of the stat's changed lines (the total being minLines or more) is
\* elevated, and when the diff is truncated and holds a tier-2 file the
\* content holds the elevated file's chunk.
C19_ElevationWins ==
    prepared.pc = "prepared" /\ prepared.stat # NoStat
        => ElevationWins(parseStatForLineCounts(prepared.stat))

\* the changed-line count N a stat line names, as the entry of its path
DeclaredEntry(line) ==
    [path |-> StatPath(line), added |-> TotalOf(StatRest(line)),
     removed |-> 0]

\* the stat lines from i on, each file counted with its N; the "files
\* changed" line and a line without "|" count nothing
RECURSIVE DeclaredLoop(_, _, _)
DeclaredLoop(lines, i, map) ==
    IF i > Len(lines) THEN map
    ELSE IF IsSummaryLine(lines[i]) \/ IndexOf(lines[i], "|", 1) = 0
    THEN DeclaredLoop(lines, i + 1, map)
    ELSE DeclaredLoop(lines, i + 1, MapSet(map, DeclaredEntry(lines[i])))

DeclaredCounts(stat) == DeclaredLoop(StatLines(stat), 1, <<>>)

\* C20: computeElevatedPaths returns the empty set when the total of the
\* changed lines is below minLines or the low-tier share of it is at most
\* the threshold, and otherwise all low-tier paths, each file counting with
\* the changed-line count N of its stat line.
C20_ElevatedByDeclaredCounts ==
    prepared.pc = "prepared" /\ prepared.stat # NoStat
        => prepared.elevatedPaths
               = ElevatedFrom(DeclaredCounts(prepared.stat),
                              ThresholdOf(prepared.config),
                              MinLinesOf(prepared.config))

(***************************************************************************)
(* Import collapsing.                                                      *)
(***************************************************************************)
\* the extensions getLanguageFromPath maps to a language that
\* DEFAULT_IMPORT_PATTERNS holds a pattern for
RecognizedExtensions ==
    {<<".", "p", "y">>, <<".", "r", "s">>, <<".", "g", "o">>, <<".", "t", "s">>, <<".", "t", "s", "x">>, <<".", "j", "s">>, <<".", "j", "s", "x">>, <<".", "m", "j", "s">>, <<".", "c", "j", "s">>,
     <<".", "j", "a", "v", "a">>, <<".", "k", "t">>}

Recognized(path) == Extension(BaseName(path)) \in RecognizedExtensions

\* line j is an import line of the sign of line i
SameSignImport(lines, i, j, lang) ==
    isImportLine(lines[j], lang) /\ SignOf(lines[j]) = SignOf(lines[i])

\* line i starts a maximal run of same-sign import lines
StartsRun(lines, i, lang) ==
    /\ isImportLine(lines[i], lang)
    /\ i = 1 \/ ~SameSignImport(lines, i, i - 1, lang)

\* the number K of lines of the maximal run that line i starts
RunLength(lines, i, lang) ==
    Least({j \in (i + 1)..(Len(lines) + 1) :
              j = Len(lines) + 1 \/ ~SameSignImport(lines, i, j, lang)}) - i

\* the indexes of the lines that are no import lines or start a run
KeptIndexes(lines, lang) ==
    LET Kept(i) == ~isImportLine(lines[i], lang) \/ StartsRun(lines, i, lang)
    IN  SelectSeq([i \in 1..Len(lines) |-> i], Kept)

\* one placeholder naming K for every maximal run, the other lines as they
\* are, all in order
RunsReplaced(lines, kept, lang) ==
    [k \in 1..Len(kept) |->
        IF isImportLine(lines[kept[k]], lang)
        THEN Placeholder(SignOf(lines[kept[k]]),
                         RunLength(lines, kept[k], lang))
        ELSE lines[kept[k]]]

ExpectedCollapse(lines, lang) ==
    RunsReplaced(lines, KeptIndexes(lines, lang), lang)

\* C21: with import collapsing on, in a chunk of a recognized language
\* every maximal run of K consecutive same-sign import lines is replaced by
\* exactly one placeholder line naming K and all other lines are kept
\* unchanged and in order; with importCollapse = false the chunk is
\* returned unchanged.
C21_RunsCollapsed ==
    applied.fn = "collapseImportLines" /\ applied.pc = "returned"
        => IF ~applied.config.importCollapse
           THEN applied.out = applied.chunk
           ELSE Recognized(applied.path)
                    => SplitLines(applied.out, 1, <<>>)
                           = ExpectedCollapse(
                                 SplitLines(applied.chunk, 1, <<>>),
                                 getLanguageFromPath(applied.path))

\* two added imports and a removed import of a TypeScript file have become
\* two placeholders
C21_Witness ==
    /\ applied.fn = "collapseImportLines"
    /\ applied.pc = "returned"
    /\ applied.config.importCollapse
    /\ applied.chunk
           = ChunkOf(PathTs, <<AddedImport, AddedImport, RemovedImport>>)
    /\ applied.out
           = ChunkOf(PathTs, <<Placeholder("+", 2), Placeholder("-", 1)>>)

\* C22: for a path whose extension maps to no language with an import
\* pattern, no line is treated as an import and collapseImportLines returns
\* the chunk unchanged.
C22_UnknownUnchanged ==
    /\ applied.fn = "collapseImportLines"
    /\ applied.pc = "returned"
    /\ ~Recognized(applied.path)
    => applied.out = applied.chunk

(***************************************************************************)
(* The prompts.                                                            *)
(***************************************************************************)
\* C23: the diff content in the prompt of every generation attempt of an
\* invocation is exactly the content of the diff prepared at startup.
C23_PromptHoldsPreparedDiff ==
    \A k \in 1..Len(prepared.prompts) :
        prepared.prompts[k].content = prepared.content

\* C28: the prompt sent to the backend holds the truncation notice exactly
\* when the prepared diff was truncated, in both flows.
C28_NoticeIffTruncated ==
    \A k \in 1..Len(prepared.prompts) :
        prepared.prompts[k].truncationNote = prepared.wasTruncated

(***************************************************************************)
(* The parsed subject.                                                     *)
(***************************************************************************)
\* parseCommitMessage has returned a message
Parsed ==
    /\ applied.fn = "parseCommitMessage"
    /\ applied.pc = "returned"
    /\ applied.out.ok

\* the subject the format of the config asks for, from the parts of the
\* first line
Reassembled(subject, config) ==
    IF config.conventionalCommit
    THEN (IF config.includeEmoji /\ EMOJI_MAP(subject.type) # <<>>
          THEN EMOJI_MAP(subject.type) \o <<" ">>
          ELSE <<>>)
         \o subject.type
         \o (IF config.includeScope /\ subject.scope # NoScope
             THEN <<"(">> \o subject.scope \o <<")">>
             ELSE <<>>)
         \o <<":", " ">> \o subject.description
    ELSE (IF config.includeEmoji THEN EMOJI_MAP(Chore) \o <<" ">> ELSE <<>>)
         \o subject.text

EndsWithEllipsis(s) ==
    /\ Len(s) >= 3
    /\ SubSeq(s, Len(s) - 2, Len(s)) = Ellipsis

\* C24: for every raw text and config, the subject parseCommitMessage
\* returns is at most maxSubjectLength long, and when the reassembled
\* subject was longer it is exactly maxSubjectLength long and ends with
\* "...".
C24_SubjectWithinLength ==
    Parsed =>
        /\ Len(applied.out.subject) <= applied.config.maxSubjectLength
        /\ Len(Reassembled(applied.subject, applied.config))
               > applied.config.maxSubjectLength
           => /\ Len(applied.out.subject) = applied.config.maxSubjectLength
              /\ EndsWithEllipsis(applied.out.subject)

Configured(config, field) ==
    /\ field \in DOMAIN config
    /\ ~config[field].null

LengthOf(config) ==
    IF Configured(config, "maxDiffLength")
    THEN config.maxDiffLength.n
    ELSE MAX_DIFF_LENGTH

\* C26: getEffectiveDiffLimit returns the smaller of maxDiffLength and
\* floor(maxDiffTokens * 3.5) when a token limit is configured, and
\* maxDiffLength (8000 by default) alone when none is, also when
\* maxDiffTokens is null.
C26_EffectiveLimit ==
    /\ applied.fn = "getEffectiveDiffLimit"
    /\ applied.pc = "returned"
    => applied.out
           = IF Configured(applied.config, "maxDiffTokens")
             THEN Min(LengthOf(applied.config),
                      (applied.config.maxDiffTokens.n * 35) \div 10)
             ELSE LengthOf(applied.config)

\* the fields of the file whose values validateConfig finds invalid
InvalidFields(file) ==
    {field \in DOMAIN file.fields : Warned(file.fields, field)}

Reported(out, field) ==
    \E k \in 1..Len(out.warnings) : out.warnings[k] = field

\* the returned config has the default of the field, or no value where
\* DEFAULT_CONFIG has none
CarriesDefault(config, field) ==
    IF field \in DOMAIN Defaults
    THEN field \in DOMAIN config /\ config[field] = Defaults[field]
    ELSE field \notin DOMAIN config

\* C27: loadConfig never aborts on an invalid config: every invalid value
\* is reported as a warning and the returned Config has the default of its
\* field.
C27_InvalidValuesDefaulted ==
    /\ applied.fn = "loadConfig"
    /\ applied.pc = "returned"
    => /\ applied.out.ok
       /\ \A field \in InvalidFields(applied.file) :
              /\ Reported(applied.out, field)
              /\ CarriesDefault(applied.out.config, field)

(***************************************************************************)
(* The listeners of a reused session.                                      *)
(***************************************************************************)
\* C29: when a later generate call reuses the session, the events of its
\* stream reach only its own listener: only its onChunk and onProgress are
\* invoked and only its accumulator is appended to, and the callbacks of
\* the calls that completed before are invoked no more.
C29_OnlyOwnListener ==
    \A k \in 1..Len(pending) : pending[k] = gen.hid

(***************************************************************************)
(* The message committed.                                                  *)
(***************************************************************************)
\* this step invokes commit
CommitInvoked == commit.pc = "idle" /\ commit'.pc = "running"

\* C30: commit is invoked only from ready and with the fullMessage of the
\* successful generation applied last: fullMessage is emptied when a
\* generation starts and filled only with the result of the current
\* generation, and commit gets it when it is not empty, so never a text
\* streamed in part, an empty message, or the result of a superseded or
\* failed generation.
C30_CommitsAppliedMessage ==
    [][/\ CommitInvoked
           => /\ ui.viewState = "ready"
              /\ ui.error = NoError
              /\ gen.pc = "idle"
              /\ commit'.message = ui.fullMessage
              /\ commit'.message # <<>>
       /\ ui'.generationKey # ui.generationKey => ui'.fullMessage = <<>>
       /\ ui'.fullMessage # ui.fullMessage /\ ui'.fullMessage # <<>>
           => /\ gen.pc = "returned"
              /\ gen.out.status = "ok"
              /\ gen.key = ui.generationKey
              /\ ui'.fullMessage = gen.out.message]_vars

\* commit has been invoked with the message a regeneration gave
C30_Witness ==
    /\ caller = "dashboard"
    /\ commit.pc = "running"
    /\ ui.generationKey >= 2
    /\ commit.message = ui.fullMessage
    /\ commit.message = SubjectText

====
